---- MODULE Spec2Model ----
(***************************************************************************)
(* Runtime session control plane of bolt.diy (Dokploy provider).          *)
(*                                                                         *)
(* Server side: the session orchestrator (create / heartbeat), the idle    *)
(* sweeper and the platform they talk to.  Every platform call is an       *)
(* await point of the JavaScript code: an action of this module is the     *)
(* settling of one platform call together with the synchronous code that   *)
(* runs after it, up to the next call being issued.                        *)
(***************************************************************************)
EXTENDS Integers, Sequences, FiniteSets, TLC

(***************************************************************************)
(* Bounds of the model.                                                    *)
(***************************************************************************)
MaxComposes == 2
MaxCalls == 2
MaxTicks == 1
MaxFaults == 2
MaxExternal == 1
T0 == 200400
MaxEnqueues == 3
MaxLists == 3
MaxMutations == 1
MaxClock == 2
ClockStep == 1000
MaxPreviewTicks == 4
PreviewStep == 90000
MaxWaiting == 3
MaxStreak == 8
MaxPathLen == 4
MaxRetriesOption == 2
MaxHeartbeats == 1
MaxEnsures == 2
MaxRefreshes == 1
MaxTeardowns == 1
MaxRestarts == 1
MaxDeletes == 1
MaxTokenEvents == 1
MaxWalkCalls == 3

(***************************************************************************)
(* Program constants.                                                      *)
(***************************************************************************)
SessionIdleMinutes == 1
SecPerMin == 60
MsPerSec == 1000
DirectoryCacheTtlMs == 2000
QueuedTimeoutMs == 180000
MaxAutoRetries == 1
ReconnectGraceMs == 30000
RemoteRefreshVisibleIntervalMs == 20000
RemoteRefreshHiddenBackoffMs == <<20000, 40000, 80000, 160000, 300000>>

Actors == {"a1", "a2"}
Chats == {"c1", "c2"}
ComposeIds == 1..MaxComposes
CallIds == 1..MaxCalls
NaN == -1

IdleTtlSec == SessionIdleMinutes * SecPerMin
IdleTtlMs == IdleTtlSec * MsPerSec
TickSteps == {400, IdleTtlMs}

VARIABLES
  now,                \* Date.now(), in ms
  ticks,              \* number of clock advances so far
  faults,             \* number of failed platform calls so far
  externals,          \* number of composes other server processes created
  projects,           \* platform: sequence of project names (owner actor)
  composes,           \* platform: compose id -> compose record
  actorCleanupLocks,  \* cleanup.ts: Set<string>
  inFlightSessionLocks, \* session-orchestrator.ts: Map<lockKey, Promise>
  call,               \* call id -> what was invoked, with which input
  pc,                 \* call id -> position of the call
  sw,                 \* call id -> state of the sweep the call runs
  cr,                 \* call id -> locals of createRuntimeSession
  hb,                 \* call id -> locals of heartbeatRuntimeSession
  res,                \* call id -> how the call settled
  queue,              \* browser: the RemoteWriteQueue and what it has done
  files,              \* browser: the RemoteFilesStore's directory cache
  preview,            \* browser: the RemotePreviewsStore's status projection
  refresh,            \* browser: the RemoteFilesStore's refresh scheduler
  mapping,            \* path-mapper.ts: one call of toRuntimePath and its outcome
  request,            \* dokploy-client.ts: one call of DokployClient.#request
  config,             \* config.ts: the RuntimeServerConfig the server runs with
  route,              \* routes/api.runtime.*: one token-scoped request and its platform calls
  store               \* the browser's RuntimeSessionStore and its calls in flight

serverVars == <<now, ticks, faults, externals, projects, composes, actorCleanupLocks,
                inFlightSessionLocks, call, pc, sw, cr, hb, res>>

\* Everything outside the orchestrator's own state.
clientVars == <<queue, files, preview, refresh, mapping, request, config, route, store>>

exceptQueue == <<serverVars, files, preview, refresh, mapping, request, config, route, store>>
exceptQueueFiles == <<serverVars, preview, refresh, mapping, request, config, route, store>>
exceptFiles == <<serverVars, queue, preview, refresh, mapping, request, config, route, store>>
exceptPreview == <<serverVars, queue, files, refresh, mapping, request, config, route, store>>
exceptRefresh == <<serverVars, queue, files, preview, mapping, request, config, route, store>>
exceptMapping == <<serverVars, queue, files, preview, refresh, request, config, route, store>>
exceptRequest == <<serverVars, queue, files, preview, refresh, mapping, config, route, store>>
exceptRoute == <<serverVars, queue, files, preview, refresh, mapping, request, config, store>>
exceptStore == <<serverVars, queue, files, preview, refresh, mapping, request, config, route>>

vars == <<serverVars, clientVars>>

(***************************************************************************)
(* Compose descriptions and metadata (metadata.ts).                        *)
(***************************************************************************)
NoDesc == [prefix |-> FALSE, v |-> 0, actorId |-> "", chatId |-> "",
           lastSeenAt |-> 0, idleTtlSec |-> 0]

Meta(a, c, seen, ttl) ==
  [prefix |-> TRUE, v |-> 1, actorId |-> a, chatId |-> c,
   lastSeenAt |-> seen, idleTtlSec |-> ttl]

\* parseRuntimeMetadata: null (NoDesc here) unless the prefix is there, the
\* version is 1 and actor and chat are non-empty.
parseRuntimeMetadata(description) ==
  IF ~description.prefix THEN NoDesc
  ELSE IF description.v # 1 \/ description.actorId = "" \/ description.chatId = ""
       THEN NoDesc
       ELSE description

\* formatRuntimeMetadata: the prefix followed by the JSON of the metadata.
formatRuntimeMetadata(metadata) == [metadata EXCEPT !.prefix = TRUE]

isExpiredLoose(lastSeenAt, idleTtlSec, t) ==
  IF lastSeenAt = NaN THEN FALSE
  ELSE lastSeenAt + idleTtlSec * MsPerSec <= t

\* isExpired, with Date.now() passed as t.
isExpired(lastSeenAt, idleTtlSec, t) ==
  IF lastSeenAt = NaN THEN FALSE
  ELSE lastSeenAt + idleTtlSec * MsPerSec < t

(***************************************************************************)
(* The platform.                                                           *)
(***************************************************************************)
NoCompose == [exists |-> FALSE, project |-> 0, desc |-> NoDesc,
              composeStatus |-> "idle", dep |-> "none", domain |-> FALSE,
              sourceType |-> "", files |-> FALSE, deployedBare |-> FALSE]

\* The compose has had compose.update (sourceType raw, composePath
\* docker-compose.yml) and every template file written.
Prepared(compose) == compose.sourceType = "raw" /\ compose.files

ExistingIds == {c \in ComposeIds : composes[c].exists}

RECURSIVE SeqOfSet(_)
SeqOfSet(S) ==
  IF S = {} THEN <<>>
  ELSE LET m == CHOOSE x \in S : \A y \in S : x <= y
       IN <<m>> \o SeqOfSet(S \ {m})

\* project.all as the sweeper reads it: every compose of every project, with
\* its description, in the platform's order.
projectAllComposes ==
  [k \in 1..Cardinality(ExistingIds) |->
     LET c == SeqOfSet(ExistingIds)[k]
     IN [composeId |-> c, description |-> composes[c].desc]]

(***************************************************************************)
(* Tokens (runtime-token.ts).                                              *)
(***************************************************************************)
NoToken == [actorId |-> "", chatId |-> "", composeId |-> 0, iat |-> 0, exp |-> 0]

\* signRuntimeToken: nowSec = floor(Date.now() / 1000), exp = nowSec + ttlSec.
signRuntimeToken(actorId, chatId, composeId, ttlSec, t) ==
  [actorId |-> actorId, chatId |-> chatId, composeId |-> composeId,
   iat |-> t \div MsPerSec, exp |-> (t \div MsPerSec) + ttlSec]

buildRuntimeTokenNoTtl(actorId, chatId, composeId, t) ==
  signRuntimeToken(actorId, chatId, composeId, 0, t)

\* buildRuntimeToken: ttlSec = config.sessionIdleMinutes * 60.
buildRuntimeToken(actorId, chatId, composeId, t) ==
  signRuntimeToken(actorId, chatId, composeId, SessionIdleMinutes * SecPerMin, t)

\* verifyRuntimeToken: jwtVerify rejects a token whose exp has passed.
verifyRuntimeToken(token, t) ==
  token.composeId # 0 /\ (t \div MsPerSec) < token.exp

\* getExpiresAt: lastSeenAt + idleTtlSec * 1000, as a time in ms.
getExpiresAt(metadata) == metadata.lastSeenAt + metadata.idleTtlSec * MsPerSec

(***************************************************************************)
(* Status derivations (session-orchestrator.ts).  dep is the status of the *)
(* most recently created deployment of the compose, "none" without one.    *)
(***************************************************************************)
getDeploymentStatus(dep) ==
  IF dep = "none" THEN "queued"
  ELSE IF dep = "done" THEN "done"
  ELSE IF dep = "error" \/ dep = "cancelled" THEN "error"
  ELSE "running"

getSessionStatus(composeStatus, dep) ==
  LET deploymentStatus == getDeploymentStatus(dep)
  IN IF deploymentStatus = "error" \/ composeStatus = "error" THEN "error"
     ELSE IF deploymentStatus = "done" \/ composeStatus = "done" THEN "ready"
     ELSE IF deploymentStatus = "running" THEN "deploying"
     ELSE "creating"

isReusableSessionStatus(status) ==
  status = "creating" \/ status = "deploying" \/ status = "ready"

shouldQueueDeploy(deploymentStatus) ==
  deploymentStatus = "queued" \/ deploymentStatus = "error"

(***************************************************************************)
(* Calls.                                                                  *)
(***************************************************************************)
NoCall == [kind |-> "none", actorId |-> "", chatId |-> "", token |-> NoToken]

NoSweep == [snap |-> <<>>, todo |-> <<>>, issued |-> {}, listedAt |-> 0,
            ran |-> FALSE, skipped |-> FALSE, threw |-> FALSE, calls |-> 0]

NoHb == [status |-> "", stamp |-> 0, next |-> NoDesc, applied |-> FALSE]

NoRes == [status |-> "pending", token |-> NoToken, composeId |-> 0,
          code |-> "", httpStatus |-> 0, expiresAt |-> 0, sessionStatus |-> ""]

Rejected(code) == [NoRes EXCEPT !.status = "rejected", !.code = code]

\* new RuntimeSessionOrchestratorError(message, status, code)
RuntimeSessionOrchestratorError(status, code) ==
  [NoRes EXCEPT !.status = "rejected", !.code = code, !.httpStatus = status]

\* An absent value of the code (undefined) and a present one.
Undefined == <<>>
Defined(n) == <<n>>
OrElse(opt, n) == IF opt = Undefined THEN n ELSE opt[1]

\* The part of RuntimeServerConfig that decides the deploy server.
StableConfig == [dokployCanaryRolloutPercent |-> 0, dokployCanaryServerId |-> Undefined]

CanaryWithoutServer ==
  [dokployCanaryRolloutPercent |-> 100, dokployCanaryServerId |-> Undefined]

normalizePercent(value) ==
  IF value <= 0 THEN 0 ELSE IF value >= 100 THEN 100 ELSE value

\* stableHash32(actorId:chatId) % 100: a fixed number in 0..99 for each pair
resolveRolloutBucket(actorId, chatId) ==
  CASE actorId = "a1" /\ chatId = "c1" -> 0
    [] actorId = "a1" /\ chatId = "c2" -> 99
    [] OTHER -> 37

selectRuntimeRolloutCohortBelow(actorId, chatId, canaryPercent) ==
  IF resolveRolloutBucket(actorId, chatId) + 1 < normalizePercent(canaryPercent)
  THEN "canary" ELSE "stable"

selectRuntimeRolloutCohort(actorId, chatId, canaryPercent) ==
  IF normalizePercent(canaryPercent) > 0
       /\ resolveRolloutBucket(actorId, chatId) < normalizePercent(canaryPercent)
  THEN "canary" ELSE "stable"

\* resolveServerIdForRollout throws when the cohort is canary and the
\* configuration names no canary server.
noCanaryDeployServer(actorId, chatId) ==
  /\ selectRuntimeRolloutCohort(actorId, chatId, config.dokployCanaryRolloutPercent) = "canary"
  /\ config.dokployCanaryServerId = Undefined

\* The next call to be invoked: calls are numbered in the order they arrive.
Fresh(i) == pc[i] = "idle" /\ \A j \in CallIds : j < i => pc[j] # "idle"

NoCand == [composeId |-> 0, metadata |-> NoDesc, deploymentStatus |-> "",
           sessionStatus |-> ""]

\* Locals of createRuntimeSession, and a record of what the call has done.
NoCr == [owner |-> 0, projectId |-> 0, scan |-> 0, matches |-> <<>>,
         cand |-> NoCand, stale |-> <<>>, firstStale |-> <<>>, todo |-> <<>>,
         metadata |-> NoDesc, composeId |-> 0,
         deploymentStatus |-> "", sessionStatus |-> "",
         nComposeCreate |-> 0, nProjectCreate |-> 0, nRefetch |-> 0, nScan |-> 0,
         seen |-> {}, deleteIssued |-> {}, deleteFailed |-> {},
         reused |-> 0, conflict |-> FALSE, fatal |-> "", overlaps |-> {},
         reusableAtCall |-> {}]

LockKey(actorId, chatId) == <<actorId, chatId>>

KeepSessionLock(locks, i, actorId, chatId) == locks

\* The finally block of withSessionLock: the entry is deleted only if it is
\* still the promise of this task.
ReleaseSessionLock(locks, i, actorId, chatId) ==
  [locks EXCEPT ![LockKey(actorId, chatId)] = IF @ = i THEN 0 ELSE @]

(***************************************************************************)
(* Clock and platform faults.                                              *)
(***************************************************************************)
Tick ==
  /\ ticks < MaxTicks
  /\ \E d \in TickSteps : now' = now + d
  /\ ticks' = ticks + 1
  /\ UNCHANGED <<faults, externals, projects, composes, actorCleanupLocks,
                 inFlightSessionLocks, call, pc, sw, cr, hb, res>>

\* A platform call may fail for a reason of its own (network, 5xx after the
\* client's retries): ok = FALSE uses up one of the faults of the run.
Outcome(ok) ==
  /\ ~ok => faults < MaxFaults
  /\ faults' = IF ok THEN faults ELSE faults + 1

(***************************************************************************)
(* heartbeatRuntimeSession: what it returns once the sweep has returned.   *)
(***************************************************************************)
HeartbeatResult(i, t) ==
  [NoRes EXCEPT !.status = "fulfilled",
                !.sessionStatus = hb[i].status,
                !.expiresAt = getExpiresAt(hb[i].next),
                !.composeId = call[i].token.composeId,
                !.token = buildRuntimeToken(call[i].token.actorId, call[i].token.chatId,
                                            call[i].token.composeId, t)]

cleanupErrorPropagates(threw) == threw

\* createRuntimeSession wraps the sweep in try/catch: its error is logged.
createFailsOnCleanupError(threw) == FALSE

\* heartbeatRuntimeSession awaits the sweep outside any try/catch.
heartbeatFailsOnCleanupError(threw) == threw

(***************************************************************************)
(* cleanupExpiredActorSessions (cleanup.ts).                               *)
(***************************************************************************)
AnyActorLocked(locks, actorId) == locks # {}

\* actorCleanupLocks.has(actorId)
cleanupLockHeld(locks, actorId) == actorId \in locks

\* The two `continue` tests of the loop body.
cleanupSkips(metadata, actorId, t) ==
  \/ metadata = NoDesc
  \/ metadata.actorId # actorId
  \/ ~isExpired(metadata.lastSeenAt, metadata.idleTtlSec, t)

\* The loop runs without awaiting up to the next compose it deletes.
RECURSIVE SkipToExpired(_, _, _)
SkipToExpired(todo, actorId, t) ==
  IF todo = <<>> THEN <<>>
  ELSE IF cleanupSkips(parseRuntimeMetadata(Head(todo).description), actorId, t)
       THEN SkipToExpired(Tail(todo), actorId, t)
       ELSE todo

\* The caller's code after `await cleanupExpiredActorSessions(...)`.
AfterCleanup(i, kind, actorId, chatId, threw, locks) ==
  LET fatal == CASE kind = "create" -> createFailsOnCleanupError(threw)
                 [] kind = "heartbeat" -> heartbeatFailsOnCleanupError(threw)
                 [] OTHER -> threw
  IN /\ pc' = [pc EXCEPT ![i] = IF kind = "create" /\ ~fatal THEN "projectAll" ELSE "done"]
     /\ res' = [res EXCEPT ![i] =
                  IF fatal THEN Rejected("CLEANUP_FAILED")
                  ELSE IF kind = "heartbeat" THEN HeartbeatResult(i, now)
                  ELSE IF kind = "sweep" THEN [NoRes EXCEPT !.status = "fulfilled"]
                  ELSE @]
     /\ inFlightSessionLocks' =
          IF kind = "create" /\ fatal
          THEN ReleaseSessionLock(locks, i, actorId, chatId)
          ELSE locks

\* The sweep goes on with the rest of the listing, or returns.
ContinueCleanup(i, rest, snap, listedAt) ==
  LET a == call[i].actorId
      todo == SkipToExpired(rest, a, now)
  IN IF todo = <<>>
     THEN /\ sw' = [sw EXCEPT ![i].todo = <<>>, ![i].snap = snap, ![i].listedAt = listedAt]
          /\ actorCleanupLocks' = actorCleanupLocks \ {a}
          /\ AfterCleanup(i, call[i].kind, a, call[i].chatId, FALSE, inFlightSessionLocks)
     ELSE /\ sw' = [sw EXCEPT ![i].todo = todo, ![i].snap = snap, ![i].listedAt = listedAt,
                              ![i].calls = @ + 1,
                              ![i].issued = @ \cup {[composeId |-> Head(todo).composeId,
                                                     description |-> Head(todo).description,
                                                     at |-> now]}]
          /\ pc' = [pc EXCEPT ![i] = "sweepDelete"]
          /\ UNCHANGED <<actorCleanupLocks, res, inFlightSessionLocks>>

\* The synchronous start of the sweep: try-and-skip on the actor's lock.
EnterCleanup(i, kind, actorId, chatId, locks) ==
  IF cleanupLockHeld(actorCleanupLocks, actorId)
  THEN /\ sw' = [sw EXCEPT ![i].skipped = TRUE]
       /\ UNCHANGED actorCleanupLocks
       /\ AfterCleanup(i, kind, actorId, chatId, FALSE, locks)
  ELSE /\ sw' = [sw EXCEPT ![i].ran = TRUE, ![i].calls = 1]
       /\ actorCleanupLocks' = actorCleanupLocks \cup {actorId}
       /\ pc' = [pc EXCEPT ![i] = "sweepList"]
       /\ inFlightSessionLocks' = locks
       /\ UNCHANGED res

\* The cleanup route (api.runtime.cleanup.ts) sweeps one actor.
InvokeSweep(i, actorId) ==
  /\ Fresh(i)
  /\ call' = [call EXCEPT ![i] = [NoCall EXCEPT !.kind = "sweep", !.actorId = actorId]]
  /\ EnterCleanup(i, "sweep", actorId, "", inFlightSessionLocks)
  /\ UNCHANGED <<now, ticks, externals, faults, projects, composes, cr, hb>>

\* project.all settles.
SweepList(i) ==
  /\ pc[i] = "sweepList"
  /\ \E ok \in BOOLEAN :
       /\ Outcome(ok)
       /\ IF ok
          THEN ContinueCleanup(i, projectAllComposes, projectAllComposes, now)
          ELSE /\ sw' = [sw EXCEPT ![i].threw = TRUE]
               /\ actorCleanupLocks' = actorCleanupLocks \ {call[i].actorId}
               /\ AfterCleanup(i, call[i].kind, call[i].actorId, call[i].chatId, TRUE,
                               inFlightSessionLocks)
  /\ UNCHANGED <<now, ticks, externals, projects, composes, call, cr, hb>>

\* compose.delete(composeId, deleteVolumes = true) on the platform.
PlatformDelete(c) == [composes EXCEPT ![c] = [NoCompose EXCEPT !.composeStatus = "deleted"]]

\* compose.delete settles; its error is swallowed.
SweepDelete(i) ==
  /\ pc[i] = "sweepDelete"
  /\ LET c == Head(sw[i].todo).composeId
     IN \E ok \in BOOLEAN :
          /\ ok => composes[c].exists
          /\ IF composes[c].exists THEN Outcome(ok) ELSE UNCHANGED faults
          /\ composes' = IF ok THEN PlatformDelete(c) ELSE composes
          /\ ContinueCleanup(i, Tail(sw[i].todo), sw[i].snap, sw[i].listedAt)
  /\ UNCHANGED <<now, ticks, externals, projects, call, cr, hb>>

(***************************************************************************)
(* heartbeatRuntimeSession.                                                *)
(***************************************************************************)
\* The token a client holds for a compose that was there at the start: the
\* one signed when its metadata was last written.
InitialToken(c) ==
  LET m == composes[c].desc
  IN signRuntimeToken(m.actorId, m.chatId, c, m.idleTtlSec, m.lastSeenAt)

\* Tokens the server has signed and a client may present.
SignedTokens ==
  {InitialToken(c) : c \in {x \in ExistingIds : parseRuntimeMetadata(composes[x].desc) # NoDesc
                                                /\ composes[x].desc.lastSeenAt # NaN}}
  \cup {res[j].token : j \in {x \in CallIds : res[x].status = "fulfilled"
                                              /\ res[x].token # NoToken}}

\* verifyRuntimeToken, then getRuntimeSession issues compose.one.
InvokeHeartbeat(i, token) ==
  /\ Fresh(i)
  /\ call' = [call EXCEPT ![i] = [kind |-> "heartbeat", actorId |-> token.actorId,
                                  chatId |-> token.chatId, token |-> token]]
  /\ IF verifyRuntimeToken(token, now)
     THEN /\ pc' = [pc EXCEPT ![i] = "hbGet"]
          /\ UNCHANGED res
     ELSE /\ pc' = [pc EXCEPT ![i] = "done"]
          /\ res' = [res EXCEPT ![i] = Rejected("UNAUTHORIZED")]
  /\ UNCHANGED <<now, ticks, externals, faults, projects, composes, actorCleanupLocks,
                 inFlightSessionLocks, sw, cr, hb>>

\* The metadata of the compose, or the one synthesized from the claims.
metadataOrSynthesized(description, claims) ==
  IF parseRuntimeMetadata(description) # NoDesc
  THEN parseRuntimeMetadata(description)
  ELSE Meta(claims.actorId, claims.chatId, claims.iat * MsPerSec,
            SessionIdleMinutes * SecPerMin)

\* getRuntimeSession: compose.one, deployment.allByCompose, domain.byComposeId
\* settle and the session is built; heartbeat then issues compose.one.
HbGet(i) ==
  /\ pc[i] = "hbGet"
  /\ LET c == call[i].token.composeId
         m == metadataOrSynthesized(composes[c].desc, call[i].token)
     IN \E ok \in BOOLEAN :
          /\ ok => composes[c].exists /\ m.lastSeenAt # NaN
          /\ IF composes[c].exists /\ m.lastSeenAt # NaN
             THEN Outcome(ok) ELSE UNCHANGED faults
          /\ IF ok
             THEN /\ hb' = [hb EXCEPT ![i].status =
                              getSessionStatus(composes[c].composeStatus, composes[c].dep)]
                  /\ pc' = [pc EXCEPT ![i] = "hbOne"]
                  /\ UNCHANGED res
             ELSE /\ pc' = [pc EXCEPT ![i] = "done"]
                  /\ res' = [res EXCEPT ![i] = Rejected("PLATFORM")]
                  /\ UNCHANGED hb
  /\ UNCHANGED <<now, ticks, externals, projects, composes, actorCleanupLocks,
                 inFlightSessionLocks, call, sw, cr>>

heartbeatKeepsLastSeen(composeMetadata, t) ==
  [composeMetadata EXCEPT !.idleTtlSec = SessionIdleMinutes * SecPerMin]

\* nextMetadata = {...composeMetadata, lastSeenAt: isoNow(), idleTtlSec: ...}
heartbeatNextMetadata(composeMetadata, t) ==
  [composeMetadata EXCEPT !.lastSeenAt = t,
                          !.idleTtlSec = SessionIdleMinutes * SecPerMin]

\* compose.one settles; nextMetadata is built with the time of this moment
\* and compose.update is issued.
HbOne(i) ==
  /\ pc[i] = "hbOne"
  /\ LET c == call[i].token.composeId
     IN \E ok \in BOOLEAN :
          /\ ok => composes[c].exists
          /\ IF composes[c].exists THEN Outcome(ok) ELSE UNCHANGED faults
          /\ IF ok
             THEN /\ hb' = [hb EXCEPT ![i].stamp = now,
                                      ![i].next = heartbeatNextMetadata(
                                         metadataOrSynthesized(composes[c].desc, call[i].token),
                                         now)]
                  /\ pc' = [pc EXCEPT ![i] = "hbUpdate"]
                  /\ UNCHANGED res
             ELSE /\ pc' = [pc EXCEPT ![i] = "done"]
                  /\ res' = [res EXCEPT ![i] = Rejected("PLATFORM")]
                  /\ UNCHANGED hb
  /\ UNCHANGED <<now, ticks, externals, projects, composes, actorCleanupLocks,
                 inFlightSessionLocks, call, sw, cr>>

\* compose.update({composeId, description}) on the platform.
PlatformUpdateDescription(c, metadata) ==
  [composes EXCEPT ![c].desc = formatRuntimeMetadata(metadata)]

\* compose.update settles; the sweep for the actor starts.
HbUpdate(i) ==
  /\ pc[i] = "hbUpdate"
  /\ LET c == call[i].token.composeId
     IN \E ok \in BOOLEAN :
          /\ ok => composes[c].exists
          /\ IF composes[c].exists THEN Outcome(ok) ELSE UNCHANGED faults
          /\ IF ok
             THEN /\ composes' = PlatformUpdateDescription(c, hb[i].next)
                  /\ hb' = [hb EXCEPT ![i].applied = TRUE]
                  /\ EnterCleanup(i, "heartbeat", call[i].actorId, call[i].chatId,
                                  inFlightSessionLocks)
             ELSE /\ pc' = [pc EXCEPT ![i] = "done"]
                  /\ res' = [res EXCEPT ![i] = Rejected("PLATFORM")]
                  /\ UNCHANGED <<composes, hb, sw, actorCleanupLocks, inFlightSessionLocks>>
  /\ UNCHANGED <<now, ticks, externals, projects, call, cr>>

(***************************************************************************)
(* createRuntimeSession.                                                   *)
(***************************************************************************)
asTimestamp(value) == IF value = NaN THEN 0 ELSE value

\* normalizeMetadata: lastSeenAt = isoNow(), idleTtlSec from the config.
normalizeMetadata(actorId, chatId, t) ==
  Meta(actorId, chatId, t, SessionIdleMinutes * SecPerMin)

\* ensureActorProject: the first project of project.all with the actor's name.
existingProject(actorId) ==
  IF \E k \in 1..Len(projects) : projects[k] = actorId
  THEN CHOOSE k \in 1..Len(projects) :
         /\ projects[k] = actorId
         /\ \A j \in 1..(k - 1) : projects[j] # actorId
  ELSE 0

RECURSIVE listChatComposesFrom(_, _, _, _)
listChatComposesFrom(ids, projectId, actorId, chatId) ==
  IF ids = <<>> THEN <<>>
  ELSE LET c == Head(ids)
           metadata == parseRuntimeMetadata(composes[c].desc)
           rest == listChatComposesFrom(Tail(ids), projectId, actorId, chatId)
       IN IF \/ composes[c].project # projectId
             \/ metadata = NoDesc
             \/ metadata.actorId # actorId
             \/ metadata.chatId # chatId
          THEN rest
          ELSE <<[composeId |-> c, metadata |-> metadata]>> \o rest

\* listChatComposes over the project that project.one returns.
listChatComposes(projectId, actorId, chatId) ==
  listChatComposesFrom(SeqOfSet(ExistingIds), projectId, actorId, chatId)

SeqIds(q) == {q[k] : k \in 1..Len(q)}

RECURSIVE Unique(_)
Unique(q) ==
  IF q = <<>> THEN <<>>
  ELSE IF Head(q) \in SeqIds(Tail(q))
       THEN Unique(Tail(q))
       ELSE <<Head(q)>> \o Unique(Tail(q))

evaluateStalesWinner(cand, stale, match, fetched) ==
  LET c == match.composeId
      sessionStatus == getSessionStatus(composes[c].composeStatus, composes[c].dep)
      current == [composeId |-> c, metadata |-> match.metadata,
                  deploymentStatus |-> getDeploymentStatus(composes[c].dep),
                  sessionStatus |-> sessionStatus]
  IN IF ~fetched \/ ~isReusableSessionStatus(sessionStatus)
     THEN [cand |-> cand, stale |-> Append(stale, c)]
     ELSE IF cand.composeId = 0
          THEN [cand |-> current, stale |-> stale]
          ELSE IF asTimestamp(current.metadata.lastSeenAt)
                    > asTimestamp(cand.metadata.lastSeenAt)
               THEN [cand |-> current, stale |-> Append(stale, c)]
               ELSE [cand |-> cand, stale |-> Append(stale, c)]

evaluateKeepsFirst(cand, stale, match, fetched) ==
  LET c == match.composeId
      sessionStatus == getSessionStatus(composes[c].composeStatus, composes[c].dep)
      current == [composeId |-> c, metadata |-> match.metadata,
                  deploymentStatus |-> getDeploymentStatus(composes[c].dep),
                  sessionStatus |-> sessionStatus]
  IN IF ~fetched \/ ~isReusableSessionStatus(sessionStatus)
     THEN [cand |-> cand, stale |-> Append(stale, c)]
     ELSE IF cand.composeId = 0
          THEN [cand |-> current, stale |-> stale]
          ELSE [cand |-> cand, stale |-> stale]

\* One round of the loop of evaluateReusableCandidate: compose.one and
\* deployment.allByCompose have settled for the match (fetched), or one threw.
evaluateReusableCandidate(cand, stale, match, fetched) ==
  LET c == match.composeId
      parsed == parseRuntimeMetadata(composes[c].desc)
      metadata == IF parsed # NoDesc THEN parsed ELSE match.metadata
      sessionStatus == getSessionStatus(composes[c].composeStatus, composes[c].dep)
      current == [composeId |-> c, metadata |-> metadata,
                  deploymentStatus |-> getDeploymentStatus(composes[c].dep),
                  sessionStatus |-> sessionStatus]
  IN IF ~fetched
     THEN [cand |-> cand, stale |-> Append(stale, c)]
     ELSE IF ~isReusableSessionStatus(sessionStatus)
          THEN [cand |-> cand, stale |-> Append(stale, c)]
          ELSE IF cand.composeId = 0
               THEN [cand |-> current, stale |-> stale]
               ELSE IF asTimestamp(current.metadata.lastSeenAt)
                         > asTimestamp(cand.metadata.lastSeenAt)
                    THEN [cand |-> current, stale |-> Append(stale, cand.composeId)]
                    ELSE [cand |-> cand, stale |-> Append(stale, c)]

\* The calls that await the promise of task i (`return await existing`).
Awaiting(i) == {j \in CallIds : pc[j] = "joined" /\ cr[j].owner = i}

\* The task of withSessionLock settles: the finally block runs, and the calls
\* that await its promise resume with its outcome in the same microtask run.
Settle(i, result) ==
  /\ res' = [j \in CallIds |-> IF j = i \/ j \in Awaiting(i) THEN result ELSE res[j]]
  /\ pc' = [j \in CallIds |-> IF j = i \/ j \in Awaiting(i) THEN "done" ELSE pc[j]]
  /\ inFlightSessionLocks' =
       ReleaseSessionLock(inFlightSessionLocks, i, call[i].actorId, call[i].chatId)

\* A call that the task cannot go on without has failed.
Throw(i, code) ==
  /\ Settle(i, Rejected(code))
  /\ cr' = [cr EXCEPT ![i].fatal = code]

\* The call of createRuntimeSession returns what it has built.
Return(i) == Settle(i, [res[i] EXCEPT !.status = "fulfilled"])

\* conflictStaleIds = [...staleComposeIds, ...recovered.staleComposeIds]
conflictStaleIds(firstStale, recoveredStale) == firstStale \o recoveredStale

\* evaluateReusableCandidate has returned {candidate, staleComposeIds}.
AfterScan(i, base, cand, stale) ==
  IF cand.composeId # 0
  THEN \* buildResultFromCandidate: normalizeMetadata, compose.update issued
       /\ cr' = [cr EXCEPT ![i] =
                   [base EXCEPT !.cand = cand, !.stale = stale, !.matches = <<>>,
                                !.reused = cand.composeId,
                                !.metadata = normalizeMetadata(call[i].actorId,
                                                               call[i].chatId, now)]]
       /\ pc' = [pc EXCEPT ![i] = "reuseUpdate"]
       /\ UNCHANGED <<res, inFlightSessionLocks>>
  ELSE IF base.scan = 2
  THEN \* no candidate after the conflict: the CONFLICT error is thrown again
       /\ Settle(i, Rejected("CONFLICT"))
       /\ cr' = [cr EXCEPT ![i] = [base EXCEPT !.cand = cand, !.stale = stale,
                                               !.matches = <<>>, !.fatal = "CONFLICT"]]
  ELSE IF stale # <<>>
  THEN \* deleteComposesBestEffort(staleComposeIds)
       /\ cr' = [cr EXCEPT ![i] =
                   [base EXCEPT !.cand = cand, !.stale = stale, !.matches = <<>>,
                                !.todo = Unique(stale),
                                !.deleteIssued = @ \cup SeqIds(stale)]]
       /\ pc' = [pc EXCEPT ![i] = "staleDelete"]
       /\ UNCHANGED <<res, inFlightSessionLocks>>
  ELSE IF noCanaryDeployServer(call[i].actorId, call[i].chatId)
  THEN \* resolveServerIdForRollout throws
       /\ Settle(i, RuntimeSessionOrchestratorError(503, "NO_CANARY_DEPLOY_SERVER"))
       /\ cr' = [cr EXCEPT ![i] =
                   [base EXCEPT !.cand = cand, !.stale = stale, !.matches = <<>>,
                                !.fatal = "NO_CANARY_DEPLOY_SERVER"]]
  ELSE \* normalizeMetadata, compose.create issued
       /\ cr' = [cr EXCEPT ![i] =
                   [base EXCEPT !.cand = cand, !.stale = stale, !.matches = <<>>,
                                !.nComposeCreate = @ + 1,
                                !.metadata = normalizeMetadata(call[i].actorId,
                                                               call[i].chatId, now)]]
       /\ pc' = [pc EXCEPT ![i] = "composeCreate"]
       /\ UNCHANGED <<res, inFlightSessionLocks>>

\* listChatComposes has returned: the reuse search starts.
StartScan(i, base, matches) ==
  LET b == [base EXCEPT !.matches = matches, !.nScan = @ + 1,
                        !.cand = NoCand, !.stale = <<>>,
                        !.seen = @ \cup {matches[k].composeId : k \in 1..Len(matches)}]
  IN IF matches = <<>>
     THEN AfterScan(i, b, NoCand, <<>>)
     ELSE /\ cr' = [cr EXCEPT ![i] = b]
          /\ pc' = [pc EXCEPT ![i] = "evaluate"]
          /\ UNCHANGED <<res, inFlightSessionLocks>>

\* The composes whose metadata matches the actor and chat and whose derived
\* session status is creating, deploying or ready.
ReusableIds(actorId, chatId) ==
  {c \in ExistingIds :
     /\ parseRuntimeMetadata(composes[c].desc) # NoDesc
     /\ composes[c].desc.actorId = actorId
     /\ composes[c].desc.chatId = chatId
     /\ isReusableSessionStatus(getSessionStatus(composes[c].composeStatus, composes[c].dep))}

\* The create calls for the key that have been made and have not returned.
InFlightCreates(actorId, chatId) ==
  {j \in CallIds : /\ call[j].kind = "create"
                   /\ call[j].actorId = actorId
                   /\ call[j].chatId = chatId
                   /\ pc[j] # "done"}

noExistingLock(locks, actorId, chatId) == 0

\* inFlightSessionLocks.get(lockKey)
existingLock(locks, actorId, chatId) == locks[LockKey(actorId, chatId)]

\* withSessionLock: a call that finds a promise under its key awaits it; the
\* first one starts the task, which runs up to the first platform call of the
\* sweep, and stores its promise.
InvokeCreate(i, actorId, chatId) ==
  /\ Fresh(i)
  /\ call' = [call EXCEPT ![i] = [NoCall EXCEPT !.kind = "create", !.actorId = actorId,
                                                !.chatId = chatId]]
  /\ IF existingLock(inFlightSessionLocks, actorId, chatId) # 0
     THEN /\ cr' = [cr EXCEPT ![i].owner =
                      existingLock(inFlightSessionLocks, actorId, chatId),
                              ![i].overlaps = InFlightCreates(actorId, chatId),
                              ![i].reusableAtCall = ReusableIds(actorId, chatId)]
          /\ pc' = [pc EXCEPT ![i] = "joined"]
          /\ UNCHANGED <<sw, res, actorCleanupLocks, inFlightSessionLocks>>
     ELSE /\ EnterCleanup(i, "create", actorId, chatId,
                          [inFlightSessionLocks EXCEPT ![LockKey(actorId, chatId)] = i])
          /\ cr' = [cr EXCEPT ![i].owner = i,
                              ![i].overlaps = InFlightCreates(actorId, chatId),
                              ![i].reusableAtCall = ReusableIds(actorId, chatId)]
  /\ UNCHANGED <<now, ticks, externals, faults, projects, composes, hb>>

\* ensureActorProject: project.all settles.
ProjectAll(i) ==
  /\ pc[i] = "projectAll"
  /\ \E ok \in BOOLEAN :
       /\ Outcome(ok)
       /\ IF ok
          THEN /\ cr' = [cr EXCEPT ![i].projectId = existingProject(call[i].actorId),
                                   ![i].nProjectCreate =
                                      IF existingProject(call[i].actorId) = 0
                                      THEN @ + 1 ELSE @]
               /\ pc' = [pc EXCEPT ![i] = IF existingProject(call[i].actorId) = 0
                                          THEN "projectCreate" ELSE "projectOne"]
               /\ UNCHANGED <<res, inFlightSessionLocks>>
          ELSE Throw(i, "PLATFORM")
  /\ UNCHANGED <<now, ticks, externals, projects, composes, actorCleanupLocks, call, sw, hb>>

\* project.create settles.
ProjectCreate(i) ==
  /\ pc[i] = "projectCreate"
  /\ \E ok \in BOOLEAN :
       /\ Outcome(ok)
       /\ IF ok
          THEN /\ projects' = Append(projects, call[i].actorId)
               /\ cr' = [cr EXCEPT ![i].projectId = Len(projects) + 1]
               /\ pc' = [pc EXCEPT ![i] = "projectOne"]
               /\ UNCHANGED <<res, inFlightSessionLocks>>
          ELSE /\ Throw(i, "PLATFORM")
               /\ UNCHANGED projects
  /\ UNCHANGED <<now, ticks, externals, composes, actorCleanupLocks, call, sw, hb>>

\* project.one settles: the environment, the rollout and the matches are
\* computed and the reuse search starts.
ProjectOne(i) ==
  /\ pc[i] = "projectOne"
  /\ \E ok \in BOOLEAN :
       /\ Outcome(ok)
       /\ IF ok
          THEN StartScan(i, [cr[i] EXCEPT !.scan = 1],
                         listChatComposes(cr[i].projectId, call[i].actorId, call[i].chatId))
          ELSE Throw(i, "PLATFORM")
  /\ UNCHANGED <<now, ticks, externals, projects, composes, actorCleanupLocks, call, sw, hb>>

\* compose.one and deployment.allByCompose settle for the next match.
Evaluate(i) ==
  /\ pc[i] = "evaluate"
  /\ LET match == Head(cr[i].matches)
         c == match.composeId
     IN \E fetched \in BOOLEAN :
          /\ fetched => composes[c].exists
          /\ IF composes[c].exists THEN Outcome(fetched) ELSE UNCHANGED faults
          /\ LET r == evaluateReusableCandidate(cr[i].cand, cr[i].stale, match, fetched)
             IN IF Len(cr[i].matches) > 1
                THEN /\ cr' = [cr EXCEPT ![i].matches = Tail(@), ![i].cand = r.cand,
                                         ![i].stale = r.stale]
                     /\ UNCHANGED <<pc, res, inFlightSessionLocks>>
                ELSE AfterScan(i, cr[i], r.cand, r.stale)
  /\ UNCHANGED <<now, ticks, externals, projects, composes, actorCleanupLocks, call, sw, hb>>

\* What buildResultFromCandidate and the create path return: the token is
\* signed and the session built with the time of this moment.
SessionResult(i, composeId, deploymentStatus, sessionStatus) ==
  [NoRes EXCEPT !.token = buildRuntimeToken(call[i].actorId, call[i].chatId, composeId, now),
                !.composeId = composeId,
                !.sessionStatus = sessionStatus,
                !.expiresAt = getExpiresAt(cr[i].metadata)]

\* buildResultFromCandidate has returned: the stale composes are deleted
\* best-effort, then the result is returned.
FinishReuse(i, deploymentStatus, sessionStatus) ==
  LET result == SessionResult(i, cr[i].cand.composeId, deploymentStatus, sessionStatus)
      ids == IF cr[i].scan = 2
             THEN conflictStaleIds(cr[i].firstStale, cr[i].stale)
             ELSE cr[i].stale
  IN IF ids = <<>>
     THEN /\ Settle(i, [result EXCEPT !.status = "fulfilled"])
          /\ cr' = [cr EXCEPT ![i].deploymentStatus = deploymentStatus,
                              ![i].sessionStatus = sessionStatus]
     ELSE /\ res' = [res EXCEPT ![i] = result]
          /\ pc' = [pc EXCEPT ![i] = "reuseStaleDelete"]
          /\ cr' = [cr EXCEPT ![i].deploymentStatus = deploymentStatus,
                              ![i].sessionStatus = sessionStatus,
                              ![i].todo = Unique(ids),
                              ![i].deleteIssued = @ \cup SeqIds(ids)]
          /\ UNCHANGED inFlightSessionLocks

\* updateComposeMetadata of buildResultFromCandidate settles.
ReuseUpdate(i) ==
  /\ pc[i] = "reuseUpdate"
  /\ LET c == cr[i].cand.composeId
     IN \E ok \in BOOLEAN :
          /\ ok => composes[c].exists
          /\ IF composes[c].exists THEN Outcome(ok) ELSE UNCHANGED faults
          /\ IF ok
             THEN /\ composes' = PlatformUpdateDescription(c, cr[i].metadata)
                  /\ pc' = [pc EXCEPT ![i] = "reuseDomain"]
                  /\ UNCHANGED <<cr, res, inFlightSessionLocks>>
             ELSE /\ Throw(i, "PLATFORM")
                  /\ UNCHANGED composes
  /\ UNCHANGED <<now, ticks, externals, projects, actorCleanupLocks, call, sw, hb>>

\* ensureComposeDomain: domain.byComposeId, and domain.generateDomain and
\* domain.create when the compose has no domain, settle.
PlatformEnsureDomain(c) == [composes EXCEPT ![c].domain = TRUE]

ReuseDomain(i) ==
  /\ pc[i] = "reuseDomain"
  /\ LET c == cr[i].cand.composeId
     IN \E ok \in BOOLEAN :
          /\ ok => composes[c].exists
          /\ IF composes[c].exists THEN Outcome(ok) ELSE UNCHANGED faults
          /\ IF ok
             THEN /\ composes' = PlatformEnsureDomain(c)
                  /\ IF shouldQueueDeploy(cr[i].cand.deploymentStatus)
                     THEN /\ pc' = [pc EXCEPT ![i] = "reuseDeploy"]
                          /\ UNCHANGED <<cr, res, inFlightSessionLocks>>
                     ELSE FinishReuse(i, cr[i].cand.deploymentStatus,
                                      cr[i].cand.sessionStatus)
             ELSE /\ Throw(i, "PLATFORM")
                  /\ UNCHANGED composes
  /\ UNCHANGED <<now, ticks, externals, projects, actorCleanupLocks, call, sw, hb>>

\* compose.deploy on the platform: a new deployment starts.
\* compose.deploy on the platform; deployedBare records that the compose was
\* deployed before it was prepared.
PlatformDeploy(c) ==
  [composes EXCEPT ![c].dep = "running",
                   ![c].deployedBare = @ \/ ~Prepared(composes[c])]

\* compose.deploy of buildResultFromCandidate settles.
ReuseDeploy(i) ==
  /\ pc[i] = "reuseDeploy"
  /\ LET c == cr[i].cand.composeId
     IN \E ok \in BOOLEAN :
          /\ ok => composes[c].exists
          /\ IF composes[c].exists THEN Outcome(ok) ELSE UNCHANGED faults
          /\ IF ok
             THEN /\ composes' = PlatformDeploy(c)
                  /\ FinishReuse(i, "queued", "deploying")
             ELSE /\ Throw(i, "PLATFORM")
                  /\ UNCHANGED composes
  /\ UNCHANGED <<now, ticks, externals, projects, actorCleanupLocks, call, sw, hb>>

\* deleteComposesBestEffort catches the error of each compose.delete.
deleteErrorReachesCreate(failed) == FALSE

\* One compose.delete of deleteComposesBestEffort settles.
StaleDelete(i) ==
  /\ pc[i] \in {"staleDelete", "reuseStaleDelete"}
  /\ LET c == Head(cr[i].todo)
     IN \E ok \in BOOLEAN :
          /\ ok => composes[c].exists
          /\ IF composes[c].exists THEN Outcome(ok) ELSE UNCHANGED faults
          /\ composes' = IF ok THEN PlatformDelete(c) ELSE composes
          /\ LET failed == IF ok THEN cr[i].deleteFailed ELSE cr[i].deleteFailed \cup {c}
             IN IF deleteErrorReachesCreate(~ok)
                THEN /\ Settle(i, Rejected("DELETE_FAILED"))
                     /\ cr' = [cr EXCEPT ![i].deleteFailed = failed]
                ELSE IF Len(cr[i].todo) > 1
                THEN /\ cr' = [cr EXCEPT ![i].todo = Tail(@), ![i].deleteFailed = failed]
                     /\ UNCHANGED <<pc, res, inFlightSessionLocks>>
                ELSE IF pc[i] = "reuseStaleDelete"
                THEN /\ Return(i)
                     /\ cr' = [cr EXCEPT ![i].todo = <<>>, ![i].deleteFailed = failed]
                ELSE IF noCanaryDeployServer(call[i].actorId, call[i].chatId)
                THEN /\ Settle(i, RuntimeSessionOrchestratorError(
                                     503, "NO_CANARY_DEPLOY_SERVER"))
                     /\ cr' = [cr EXCEPT ![i].todo = <<>>, ![i].deleteFailed = failed,
                                         ![i].fatal = "NO_CANARY_DEPLOY_SERVER"]
                ELSE /\ cr' = [cr EXCEPT ![i].todo = <<>>, ![i].deleteFailed = failed,
                                         ![i].nComposeCreate = @ + 1,
                                         ![i].metadata = normalizeMetadata(
                                            call[i].actorId, call[i].chatId, now)]
                     /\ pc' = [pc EXCEPT ![i] = "composeCreate"]
                     /\ UNCHANGED <<res, inFlightSessionLocks>>
  /\ UNCHANGED <<now, ticks, externals, projects, actorCleanupLocks, call, sw, hb>>

\* Compose ids are never given twice: a deleted compose leaves its id used.
FreeIds == {c \in ComposeIds : composes[c] = NoCompose}

NewId == CHOOSE c \in FreeIds : \A d \in FreeIds : c <= d

\* The compose name is bolt-chat-<hash(actor:chat)>: composes made for the
\* same actor and chat have the same name.
SameName(actorId, chatId) ==
  \E c \in ExistingIds : /\ composes[c].desc.actorId = actorId
                         /\ composes[c].desc.chatId = chatId

\* compose.create on the platform.
PlatformCreate(c, projectId, metadata) ==
  [composes EXCEPT ![c] = [exists |-> TRUE, project |-> projectId,
                           desc |-> formatRuntimeMetadata(metadata),
                           composeStatus |-> "idle", dep |-> "none", domain |-> FALSE,
                           sourceType |-> "", files |-> FALSE, deployedBare |-> FALSE]]

treatsNoErrorAsConflict(code) == FALSE

\* isDokployClientError(error) && error.code === 'CONFLICT'
isConflictError(code) == code = "CONFLICT"

\* compose.create settles: with the new compose, with CONFLICT (the project
\* is fetched again) or with another error (thrown).
ComposeCreate(i) ==
  /\ pc[i] = "composeCreate"
  /\ \E outcome \in {"ok", "CONFLICT", "PLATFORM"} :
       /\ outcome = "ok" => FreeIds # {}
       /\ outcome = "CONFLICT" => SameName(call[i].actorId, call[i].chatId)
       /\ IF outcome = "PLATFORM" /\ FreeIds # {} THEN Outcome(FALSE) ELSE UNCHANGED faults
       /\ IF outcome = "ok"
          THEN /\ composes' = PlatformCreate(NewId, cr[i].projectId, cr[i].metadata)
               /\ cr' = [cr EXCEPT ![i].composeId = NewId]
               /\ pc' = [pc EXCEPT ![i] = "composeUpdate"]
               /\ UNCHANGED <<res, inFlightSessionLocks>>
          ELSE IF isConflictError(outcome)
          THEN /\ cr' = [cr EXCEPT ![i].conflict = TRUE, ![i].firstStale = cr[i].stale,
                                   ![i].nRefetch = @ + 1]
               /\ pc' = [pc EXCEPT ![i] = "recoverProject"]
               /\ UNCHANGED <<composes, res, inFlightSessionLocks>>
          ELSE /\ Settle(i, Rejected(outcome))
               /\ cr' = [cr EXCEPT ![i].fatal = outcome,
                                   ![i].conflict = (outcome = "CONFLICT")]
               /\ UNCHANGED composes
  /\ UNCHANGED <<now, ticks, externals, projects, actorCleanupLocks, call, sw, hb>>

\* project.one of the conflict recovery settles: the reuse search runs again.
RecoverProject(i) ==
  /\ pc[i] = "recoverProject"
  /\ \E ok \in BOOLEAN :
       /\ Outcome(ok)
       /\ IF ok
          THEN StartScan(i, [cr[i] EXCEPT !.scan = 2],
                         listChatComposes(cr[i].projectId, call[i].actorId, call[i].chatId))
          ELSE Throw(i, "PLATFORM")
  /\ UNCHANGED <<now, ticks, externals, projects, composes, actorCleanupLocks, call, sw, hb>>

\* compose.update (sourceType raw, composePath, description) settles.
ComposeUpdate(i) ==
  /\ pc[i] = "composeUpdate"
  /\ LET c == cr[i].composeId
     IN \E ok \in BOOLEAN :
          /\ ok => composes[c].exists
          /\ IF composes[c].exists THEN Outcome(ok) ELSE UNCHANGED faults
          /\ IF ok
             THEN /\ composes' = [PlatformUpdateDescription(c, cr[i].metadata)
                                    EXCEPT ![c].sourceType = "raw"]
                  /\ pc' = [pc EXCEPT ![i] = "writeFiles"]
                  /\ UNCHANGED <<cr, res, inFlightSessionLocks>>
             ELSE /\ Throw(i, "PLATFORM")
                  /\ UNCHANGED composes
  /\ UNCHANGED <<now, ticks, externals, projects, actorCleanupLocks, call, sw, hb>>

\* writeTemplateFiles: every fileManager.write has settled, or one threw.
WriteFiles(i) ==
  /\ pc[i] = "writeFiles"
  /\ LET c == cr[i].composeId
     IN \E ok \in BOOLEAN :
          /\ ok => composes[c].exists
          /\ IF composes[c].exists THEN Outcome(ok) ELSE UNCHANGED faults
          /\ IF ok
             THEN /\ composes' = [composes EXCEPT ![c].files = TRUE]
                  /\ pc' = [pc EXCEPT ![i] = "ensureDomain"]
                  /\ UNCHANGED <<cr, res, inFlightSessionLocks>>
             ELSE /\ Throw(i, "PLATFORM")
                  /\ UNCHANGED composes
  /\ UNCHANGED <<now, ticks, externals, projects, actorCleanupLocks, call, sw, hb>>

\* ensureComposeDomain of the create path settles; deployment.allByCompose
\* is issued.
EnsureDomain(i) ==
  /\ pc[i] = "ensureDomain"
  /\ LET c == cr[i].composeId
     IN \E ok \in BOOLEAN :
          /\ ok => composes[c].exists
          /\ IF composes[c].exists THEN Outcome(ok) ELSE UNCHANGED faults
          /\ IF ok
             THEN /\ composes' = PlatformEnsureDomain(c)
                  /\ pc' = [pc EXCEPT ![i] = "deployments"]
                  /\ UNCHANGED <<cr, res, inFlightSessionLocks>>
             ELSE /\ Throw(i, "PLATFORM")
                  /\ UNCHANGED composes
  /\ UNCHANGED <<now, ticks, externals, projects, actorCleanupLocks, call, sw, hb>>

\* The create path returns the session of the compose it made.
FinishCreate(i, deploymentStatus, sessionStatus) ==
  /\ Settle(i, [SessionResult(i, cr[i].composeId, deploymentStatus, sessionStatus)
                  EXCEPT !.status = "fulfilled"])
  /\ cr' = [cr EXCEPT ![i].deploymentStatus = deploymentStatus,
                      ![i].sessionStatus = sessionStatus]

\* deployment.allByCompose(...).catch(() => []) settles; the session status
\* is derived from the compose that compose.create returned.
Deployments(i) ==
  /\ pc[i] = "deployments"
  /\ LET c == cr[i].composeId
     IN \E ok \in BOOLEAN :
          /\ ok => composes[c].exists
          /\ IF composes[c].exists THEN Outcome(ok) ELSE UNCHANGED faults
          /\ LET dep == IF ok THEN composes[c].dep ELSE "none"
             IN IF shouldQueueDeploy(getDeploymentStatus(dep))
                THEN /\ pc' = [pc EXCEPT ![i] = "deploy"]
                     /\ UNCHANGED <<cr, res, inFlightSessionLocks>>
                ELSE FinishCreate(i, getDeploymentStatus(dep), getSessionStatus("idle", dep))
  /\ UNCHANGED <<now, ticks, externals, projects, composes, actorCleanupLocks, call, sw, hb>>

\* compose.deploy of the create path settles.
Deploy(i) ==
  /\ pc[i] = "deploy"
  /\ LET c == cr[i].composeId
     IN \E ok \in BOOLEAN :
          /\ ok => composes[c].exists
          /\ IF composes[c].exists THEN Outcome(ok) ELSE UNCHANGED faults
          /\ IF ok
             THEN /\ composes' = PlatformDeploy(c)
                  /\ FinishCreate(i, "queued", "deploying")
             ELSE /\ Throw(i, "PLATFORM")
                  /\ UNCHANGED composes
  /\ UNCHANGED <<now, ticks, externals, projects, actorCleanupLocks, call, sw, hb>>

(***************************************************************************)
(* The platform's own steps.                                               *)
(***************************************************************************)
\* A deployment that runs ends.
DeployProgress(c) ==
  /\ composes[c].exists
  /\ composes[c].dep = "running"
  /\ \E end \in {"done", "error"} : composes' = [composes EXCEPT ![c].dep = end]
  /\ UNCHANGED <<now, ticks, externals, faults, projects, actorCleanupLocks,
                 inFlightSessionLocks, call, pc, sw, cr, hb, res>>

\* The in-flight map is per process: another server process creates a compose
\* for the actor and chat after a create task of this one has searched.
ExternalCreate(actorId, chatId) ==
  /\ externals < MaxExternal
  /\ FreeIds # {}
  /\ existingProject(actorId) # 0
  /\ \E i \in CallIds : /\ call[i].kind = "create"
                        /\ call[i].actorId = actorId
                        /\ call[i].chatId = chatId
                        /\ pc[i] \in {"staleDelete", "composeCreate"}
  /\ externals' = externals + 1
  /\ composes' = [composes EXCEPT ![NewId] =
                    [exists |-> TRUE, project |-> existingProject(actorId),
                     desc |-> Meta(actorId, chatId, now, IdleTtlSec),
                     composeStatus |-> "done", dep |-> "done", domain |-> TRUE,
                     sourceType |-> "raw", files |-> TRUE, deployedBare |-> FALSE]]
  /\ UNCHANGED <<now, ticks, faults, projects, actorCleanupLocks,
                 inFlightSessionLocks, call, pc, sw, cr, hb, res>>

(***************************************************************************)
(* RemoteWriteQueue (browser): per-file debounced write queue.             *)
(***************************************************************************)
FilePaths == {"f1", "f2"}

\* The RemoteWriteState objects the queue can have made.
StateIds == 1..MaxEnqueues

Generations == 1..MaxEnqueues

\* A RemoteWriteState that has not been made; `started` and `completed` count
\* the links of `chain`, `writing` is the job whose #write call is in flight.
NoState == [filePath |-> "", latestGeneration |-> 0, timer |-> FALSE, latestJob |-> 0,
            chain |-> <<>>, writing |-> 0, appended |-> 0, completed |-> 0,
            pending |-> {}]

\* A #flushState call that is not running.
NoFlush == [at |-> "idle", target |-> 0]

\* new RemoteWriteQueue(options), with the history of what it has done:
\* `settled` the resolve and reject calls made on each promise, `writeLog`
\* the jobs passed to the write callback, `assigned` the generations given.
NewQueue == [states |-> [p \in FilePaths |-> 0],
             objs |-> [o \in StateIds |-> NoState],
             made |-> 0,
             flushes |-> [o \in StateIds |-> NoFlush],
             settled |-> [o \in StateIds |-> [g \in Generations |-> <<>>]],
             writeLog |-> [p \in FilePaths |-> <<>>],
             assigned |-> [p \in FilePaths |-> <<>>]]

\* pending.resolve / pending.reject
Settled(q, o, g, status) == [q EXCEPT !.settled[o][g] = Append(@, status)]

RECURSIVE SettleAll(_, _, _, _)
SettleAll(q, o, gens, status) ==
  IF gens = {} THEN q
  ELSE LET g == CHOOSE x \in gens : TRUE
       IN SettleAll(Settled(q, o, g, status), o, gens \ {g}, status)

\* #maybeCleanupState: the entry of the state's path is deleted from #states.
maybeCleanupState(q, o) ==
  IF q.objs[o].timer \/ q.objs[o].latestJob # 0 \/ q.objs[o].pending # {}
  THEN q
  ELSE [q EXCEPT !.states[q.objs[o].filePath] = 0]

\* The state objects of a path with a #write call in flight.
WritingStates(q, p) == {o \in StateIds : q.objs[o].filePath = p /\ q.objs[o].writing # 0}

\* The next link of the chain runs: this.#write(job) is called.
StartWrite(q, o) ==
  IF q.objs[o].writing # 0 \/ q.objs[o].chain = <<>>
  THEN q
  ELSE LET g == Head(q.objs[o].chain)
           p == q.objs[o].filePath
       IN [q EXCEPT !.objs[o].writing = g,
                    !.objs[o].chain = Tail(@),
                    !.writeLog[p] =
                       Append(@, [state |-> o, generation |-> g,
                                  newest |-> q.assigned[p][Len(q.assigned[p])] =
                                               [state |-> o, generation |-> g]])]

\* #dispatch: the latest job is taken, the older pending generations are
\* resolved canceled and the write is appended to the chain.
dispatch(q, o) ==
  LET g == q.objs[o].latestJob
      older == {x \in q.objs[o].pending : x < g}
      q1 == SettleAll([q EXCEPT !.objs[o].latestJob = 0,
                                !.objs[o].pending = @ \ older], o, older, "canceled")
  IN IF g = 0 THEN maybeCleanupState(q, o)
     ELSE StartWrite([q1 EXCEPT !.objs[o].chain = Append(@, g),
                                !.objs[o].appended = @ + 1], o)

\* #flushState from its start or from an `await state.chain` that has
\* resolved, up to the next await that has to wait.
flushState(q, o) ==
  IF q.objs[o].timer \/ q.objs[o].latestJob # 0
  THEN LET q1 == dispatch([q EXCEPT !.objs[o].timer = FALSE], o)
       IN IF q1.objs[o].completed >= q1.objs[o].appended
          THEN [maybeCleanupState(q1, o) EXCEPT !.flushes[o] = NoFlush]
          ELSE [q1 EXCEPT !.flushes[o] = [at |-> "loop", target |-> q1.objs[o].appended]]
  ELSE IF q.objs[o].completed >= q.objs[o].appended
       THEN [maybeCleanupState(q, o) EXCEPT !.flushes[o] = NoFlush]
       ELSE [q EXCEPT !.flushes[o] = [at |-> "final", target |-> q.objs[o].appended]]

\* The chain promise a #flushState call awaits has resolved.
resumeFlush(q, o) ==
  IF q.flushes[o].at = "idle" \/ q.objs[o].completed < q.flushes[o].target
  THEN q
  ELSE IF q.flushes[o].at = "loop"
       THEN flushState(q, o)
       ELSE [maybeCleanupState(q, o) EXCEPT !.flushes[o] = NoFlush]

cancelStateForgetsPending(q, o) ==
  maybeCleanupState([q EXCEPT !.objs[o].timer = FALSE,
                              !.objs[o].latestJob = 0,
                              !.objs[o].pending = {}], o)

\* #cancelState
cancelState(q, o) ==
  maybeCleanupState(
    SettleAll([q EXCEPT !.objs[o].timer = FALSE,
                        !.objs[o].latestJob = 0,
                        !.objs[o].pending = {}], o, q.objs[o].pending, "canceled"), o)

\* const generation = state.latestGeneration + 1
nextGeneration(old) == old + 1

\* #getOrCreateState
getOrCreateState(q, p) ==
  IF q.states[p] # 0 THEN q
  ELSE [q EXCEPT !.made = @ + 1,
                 !.states[p] = q.made + 1,
                 !.objs[q.made + 1] = [NoState EXCEPT !.filePath = p]]

\* The enqueue calls made so far.
Enqueued(q) == Len(q.assigned["f1"]) + Len(q.assigned["f2"])

\* enqueue(input) with input.filePath = p, up to the promise it returns;
\* #schedule arms the debounce timer.
enqueue(q, p) ==
  LET q1 == getOrCreateState(q, p)
      o == q1.states[p]
      generation == nextGeneration(q1.objs[o].latestGeneration)
  IN [q1 EXCEPT !.objs[o].latestGeneration = generation,
                !.objs[o].latestJob = generation,
                !.objs[o].pending = @ \cup {generation},
                !.objs[o].timer = TRUE,
                !.assigned[p] = Append(@, [state |-> o, generation |-> generation])]

Enqueue(p) ==
  /\ Enqueued(queue) < MaxEnqueues
  /\ queue' = enqueue(queue, p)
  /\ UNCHANGED exceptQueue

\* The setTimeout callback of #schedule.
timerElapsed(q, o) == dispatch([q EXCEPT !.objs[o].timer = FALSE], o)

\* The debounce timer of a state fires.
TimerFire(o) ==
  /\ queue.objs[o].timer
  /\ queue' = timerElapsed(queue, o)
  /\ UNCHANGED exceptQueue

\* The write callback settles: the link of the chain resolves or rejects
\* the job's promise, cleans up, and the next link and a waiting
\* #flushState run.
chainLink(q, o, ok) ==
  LET g == q.objs[o].writing
      q1 == IF g \in q.objs[o].pending
            THEN Settled([q EXCEPT !.objs[o].pending = @ \ {g}], o, g,
                         IF ok THEN "written" ELSE "rejected")
            ELSE q
      q2 == maybeCleanupState([q1 EXCEPT !.objs[o].writing = 0,
                                         !.objs[o].completed = @ + 1], o)
  IN resumeFlush(StartWrite(q2, o), o)

\* The write callback of the job in flight returns or throws.
WriteSettle(o, ok) ==
  /\ queue.objs[o].writing # 0
  /\ queue' = chainLink(queue, o, ok)
  /\ UNCHANGED exceptQueue

\* The states in #states, in the order flush() and cancel() visit them.
RECURSIVE OverStates(_, _, _)
OverStates(Op(_, _), q, os) ==
  IF os = {} THEN q
  ELSE LET o == CHOOSE x \in os : \A y \in os : x <= y
       IN OverStates(Op, Op(q, o), os \ {o})

\* flush(filePath)
Flush(p) ==
  /\ queue.states[p] # 0
  /\ queue.flushes[queue.states[p]] = NoFlush
  /\ queue' = flushState(queue, queue.states[p])
  /\ UNCHANGED exceptQueue

\* flush()
FlushAll ==
  LET os == {queue.states[p] : p \in FilePaths} \ {0}
  IN /\ Cardinality(os) > 1
     /\ \A o \in os : queue.flushes[o] = NoFlush
     /\ queue' = OverStates(flushState, queue, os)
     /\ UNCHANGED exceptQueue

\* cancel(filePath)
Cancel(p) ==
  /\ queue.states[p] # 0
  /\ queue' = cancelState(queue, queue.states[p])
  /\ UNCHANGED exceptQueue

\* cancel()
CancelAll ==
  LET os == {queue.states[p] : p \in FilePaths} \ {0}
  IN /\ Cardinality(os) > 1
     /\ queue' = OverStates(cancelState, queue, os)
     /\ UNCHANGED exceptQueue

(***************************************************************************)
(* RemoteFilesStore (browser): the directory listing cache.                *)
(***************************************************************************)
RuntimeTokens == {"t1", "t2"}
RuntimePaths == {"src"}

\* #getDirectoryCacheKey
\* The directories a tree walk lists: the root (no runtimePath) and src.
WalkPaths == <<"", "src">>

CacheKeys == RuntimeTokens \X {WalkPaths[k] : k \in 1..Len(WalkPaths)}

ListIds == 1..MaxLists
MutationIds == 1..MaxMutations

\* No entry in #directoryCache.
NoEntry == [expiresAt |-> 0, entries |-> 0]

\* A #listDirectory call not made yet.  `entries` is the platform request
\* whose listing the call returned; `issued`, `failed` and `valid` record what
\* the call did and whether its token was invalidated since, `after` and
\* `repeats` what had happened when it was made.
NoList == [key |-> <<"", "">>, force |-> FALSE, at |-> "idle", now |-> 0, awaits |-> 0,
           entries |-> 0, issued |-> FALSE, failed |-> FALSE, valid |-> FALSE,
           after |-> {}, repeats |-> {}]

\* A write, mkdir or delete not made yet; `before` are the platform list
\* requests issued before it.
NoMutation == [token |-> "", at |-> "idle", before |-> {}]

SaveIds == 1..MaxEnqueues
DeleteIds == 1..MaxDeletes

\* A saveFile call not made yet.  File contents are numbered: 0 is '', s is
\* the content the s-th saveFile call is given.  `state`, `generation` and
\* `index` name the promise enqueue returned and its place among the
\* enqueues of the path; `before` is the local state when the call took its
\* snapshot, `rolledBack` the local state its catch block left, `deleted`
\* whether deleteFile was called for the path since.
NoSave == [at |-> "idle", filePath |-> "", content |-> 0,
           state |-> 0, generation |-> 0, index |-> 0,
           previousEntry |-> Undefined, previousLoaded |-> FALSE, previousSize |-> 0,
           hadModified |-> FALSE, previousModified |-> Undefined,
           before |-> Undefined, rolledBack |-> Undefined, deleted |-> FALSE]

\* A deleteFile call not made yet.  `issuedAfter` counts the jobs of the path
\* passed to the write callback when runtimeApi.delete was called,
\* `writingAtIssue` tells whether one of them was still in flight then, and
\* `enqueuedAtReturn` counts the enqueues of the path when the call returned.
NoDelete == [at |-> "idle", filePath |-> "", state |-> 0,
             issuedAfter |-> 0, writingAtIssue |-> FALSE, enqueuedAtReturn |-> 0]

\* files, #size, #loadedFileContent and #modifiedFiles after the first
\* refreshFromRemote has listed the files `remote` of the runtime, with the
\* calls made since and the files the runtime has.
NewMirror(remote) ==
  [fileMap |-> [p \in FilePaths |-> IF p \in remote THEN Defined(0) ELSE Undefined],
   size |-> Cardinality(remote),
   loadedFileContent |-> {},
   modifiedFiles |-> [p \in FilePaths |-> Undefined],
   lastRuntimeToken |-> TRUE,
   refreshInFlight |-> FALSE,
   tokenEvents |-> 0,
   saves |-> [s \in SaveIds |-> NoSave],
   deletes |-> [d \in DeleteIds |-> NoDelete],
   remote |-> remote]

WalkCallIds == 1..MaxWalkCalls

\* A refreshFromRemote call not made yet; `served` are the directories whose
\* listing the walk it awaited took from the cache or from a request in
\* flight.
NoWalkCall == [at |-> "idle", force |-> FALSE, served |-> {}, walkForce |-> FALSE]

\* #refreshInFlight unset.  Of a refresh in flight, `force` is the argument
\* of #refreshFromRemoteInternal, `step` the place in WalkPaths of the
\* directory being listed and `list` the #listDirectory call it awaits.
NewWalk == [refreshInFlight |-> FALSE, force |-> FALSE, step |-> 0, list |-> 0,
            served |-> {},
            calls |-> [c \in WalkCallIds |-> NoWalkCall]]

\* new RemoteFilesStore(options)
NewFiles == [directoryCache |-> [k \in CacheKeys |-> NoEntry],
             directoryListInFlight |-> [k \in CacheKeys |-> 0],
             lists |-> [i \in ListIds |-> NoList],
             mutations |-> [m \in MutationIds |-> NoMutation],
             clock |-> 0,
             mirror |-> NewMirror({}),
             walk |-> NewWalk]

\* Date.now() moves on.
ClockTick ==
  /\ files.clock < MaxClock * ClockStep
  /\ files' = [files EXCEPT !.clock = @ + ClockStep]
  /\ UNCHANGED exceptFiles

\* cached && cached.expiresAt > now
cacheHit(entry, time) == entry # NoEntry /\ entry.expiresAt > time

\* #invalidateDirectoryCache for the keys of `tokens` (all tokens when the
\* argument is omitted).
invalidateDirectoryCache(f, tokens) ==
  [f EXCEPT !.directoryCache = [k \in CacheKeys |-> IF k[1] \in tokens THEN NoEntry ELSE @[k]],
            !.directoryListInFlight = [k \in CacheKeys |-> IF k[1] \in tokens THEN 0 ELSE @[k]],
            !.lists = [i \in ListIds |-> IF @[i].key[1] \in tokens
                                         THEN [@[i] EXCEPT !.valid = FALSE] ELSE @[i]]]

\* The mutations of a token whose platform call has succeeded.
DoneMutations(f, token) ==
  {m \in MutationIds : f.mutations[m].token = token /\ f.mutations[m].at = "done"}

\* The earlier non-forced list calls for a key that issued the platform
\* request less than directoryCacheTtlMs before `time`, with no invalidation
\* of the token since.
Repeated(f, cacheKey, time) ==
  {i \in ListIds : /\ f.lists[i].key = cacheKey
                   /\ ~f.lists[i].force
                   /\ f.lists[i].issued
                   /\ f.lists[i].valid
                   /\ time < f.lists[i].now + DirectoryCacheTtlMs}

\* #listDirectory(runtimeToken, runtimePath, force) up to its first await,
\* the i-th call.
listDirectory(f, i, token, runtimePath, force) ==
  LET cacheKey == <<token, runtimePath>>
      cached == f.directoryCache[cacheKey]
      inFlight == f.directoryListInFlight[cacheKey]
      made == [NoList EXCEPT !.key = cacheKey, !.force = force, !.now = f.clock,
                             !.valid = TRUE,
                             !.after = DoneMutations(f, token),
                             !.repeats = IF force THEN {}
                                         ELSE Repeated(f, cacheKey, f.clock)]
  IN IF ~force /\ cacheHit(cached, f.clock)
     THEN [f EXCEPT !.lists[i] = [made EXCEPT !.at = "done", !.entries = cached.entries]]
     ELSE IF ~force /\ inFlight # 0
     THEN [f EXCEPT !.lists[i] = [made EXCEPT !.at = "joined", !.awaits = inFlight]]
     ELSE [f EXCEPT !.lists[i] = [made EXCEPT !.at = "request", !.issued = TRUE],
                    !.directoryListInFlight[cacheKey] = i]

\* A call of #listDirectory.
ListDirectory(i, token, runtimePath, force) ==
  /\ files.lists[i].at = "idle"
  /\ i > 1 => files.lists[i - 1].at # "idle"
  /\ files' = listDirectory(files, i, token, runtimePath, force)
  /\ UNCHANGED exceptFiles

\* runtimeApi.listFiles settles: the response is cached, the key leaves
\* #directoryListInFlight, and the call and those awaiting its promise return.
listSettled(f, r, ok) ==
  LET cacheKey == f.lists[r].key
      waiting == {r} \cup {j \in ListIds : f.lists[j].at = "joined"
                                            /\ f.lists[j].awaits = r}
      cache1 == IF ok
                THEN [f.directoryCache EXCEPT ![cacheKey] =
                         [expiresAt |-> f.lists[r].now + DirectoryCacheTtlMs,
                          entries |-> r]]
                ELSE f.directoryCache
  IN [f EXCEPT
        !.directoryCache = cache1,
        !.directoryListInFlight[cacheKey] = 0,
        !.lists = [j \in ListIds |->
                     IF j \in waiting
                     THEN [f.lists[j] EXCEPT !.at = "done",
                                             !.entries = IF ok THEN r ELSE 0,
                                             !.failed = ~ok]
                     ELSE f.lists[j]]]

\* The platform request of a #listDirectory call settles.
ListSettle(r, ok) ==
  /\ files.lists[r].at = "request"
  /\ files' = listSettled(files, r, ok)
  /\ UNCHANGED exceptFiles

\* The platform requests for listings issued so far.
IssuedRequests(f) == {i \in ListIds : f.lists[i].issued}

\* A write, mkdir or delete: its platform call is issued.
MutationStart(m, token) ==
  /\ files.mutations[m].at = "idle"
  /\ m > 1 => files.mutations[m - 1].at # "idle"
  /\ files' = [files EXCEPT !.mutations[m] =
                  [token |-> token, at |-> "call", before |-> IssuedRequests(files)]]
  /\ UNCHANGED exceptFiles

\* The platform call of a mutation settles; after a success the token's
\* cache is invalidated.
MutationSettle(m, ok) ==
  /\ files.mutations[m].at = "call"
  /\ files' = IF ok
              THEN invalidateDirectoryCache([files EXCEPT !.mutations[m].at = "done"],
                                            {files.mutations[m].token})
              ELSE [files EXCEPT !.mutations[m].at = "failed"]
  /\ UNCHANGED exceptFiles

\* The session store publishes another runtime token (or none): the whole
\* cache is invalidated.
TokenChange ==
  /\ files' = invalidateDirectoryCache(files, RuntimeTokens)
  /\ UNCHANGED exceptFiles

(***************************************************************************)
(* RemoteFilesStore (browser): saveFile and deleteFile over the write      *)
(* queue, and the subscription to the session store's runtime token.       *)
(***************************************************************************)
\* The four pieces of local state saveFile snapshots, for one path.
localState(m, p) == [entry |-> m.fileMap[p],
                     size |-> m.size,
                     loaded |-> p \in m.loadedFileContent,
                     modified |-> m.modifiedFiles[p]]

\* previousEntry?.type === 'file' ? previousEntry.content : ''
oldContent(previousEntry) == OrElse(previousEntry, 0)

\* saveFile(p, content) from its snapshot to the enqueue call, the s-th
\* saveFile call; q is the queue after the enqueue.
optimisticSave(m, q, s, p) ==
  LET previousEntry == m.fileMap[p]
      hadModified == m.modifiedFiles[p] # Undefined
      o == q.states[p]
  IN [m EXCEPT
        !.modifiedFiles[p] = IF hadModified THEN @ ELSE Defined(oldContent(previousEntry)),
        !.size = IF previousEntry = Undefined THEN @ + 1 ELSE @,
        !.fileMap[p] = Defined(s),
        !.loadedFileContent = @ \cup {p},
        !.saves[s] = [NoSave EXCEPT
                        !.at = "enqueued", !.filePath = p, !.content = s,
                        !.state = o, !.generation = q.objs[o].latestGeneration,
                        !.index = Len(q.assigned[p]),
                        !.previousEntry = previousEntry,
                        !.previousLoaded = p \in m.loadedFileContent,
                        !.previousSize = m.size,
                        !.hadModified = hadModified,
                        !.previousModified = m.modifiedFiles[p],
                        !.before = Defined(localState(m, p)),
                        !.deleted = \E d \in DeleteIds :
                                       /\ m.deletes[d].filePath = p
                                       /\ m.deletes[d].at \in {"flush", "delete"}]]

rollbackDropsModified(m, s) ==
  LET sv == m.saves[s]
      p == sv.filePath
  IN [m EXCEPT !.size = sv.previousSize,
               !.fileMap[p] = sv.previousEntry,
               !.loadedFileContent = IF sv.previousLoaded THEN @ \cup {p} ELSE @ \ {p},
               !.modifiedFiles[p] = Undefined]

\* The catch block of saveFile.
rollback(m, s) ==
  LET sv == m.saves[s]
      p == sv.filePath
  IN [m EXCEPT !.size = sv.previousSize,
               !.fileMap[p] = sv.previousEntry,
               !.loadedFileContent = IF sv.previousLoaded THEN @ \cup {p} ELSE @ \ {p},
               !.modifiedFiles[p] = IF sv.hadModified THEN sv.previousModified
                                    ELSE Undefined]

\* The saveFile calls whose enqueue promise has settled go on: after a
\* rejection the catch block runs and the call throws, otherwise it returns.
RECURSIVE resumeSaves(_, _, _)
resumeSaves(m, q, ss) ==
  IF ss = {} THEN m
  ELSE LET s == CHOOSE x \in ss : \A y \in ss : x <= y
           sv == m.saves[s]
           outcome == IF sv.at = "enqueued" THEN q.settled[sv.state][sv.generation]
                      ELSE <<>>
           m1 == IF outcome = <<>> THEN m
                 ELSE IF outcome[1] = "rejected"
                 THEN LET rolled == rollback(m, s)
                      IN [rolled EXCEPT !.saves[s].at = "thrown",
                                        !.saves[s].rolledBack =
                                           Defined(localState(rolled, sv.filePath))]
                 ELSE [m EXCEPT !.saves[s].at = "returned"]
       IN resumeSaves(m1, q, ss \ {s})

\* The deleteFile calls whose flush has resolved call runtimeApi.delete.
resumeDeletes(m, q) ==
  [m EXCEPT !.deletes = [d \in DeleteIds |->
     LET dl == m.deletes[d]
     IN IF dl.at = "flush" /\ (dl.state = 0 \/ q.flushes[dl.state] = NoFlush)
        THEN [dl EXCEPT !.at = "delete",
                        !.issuedAfter = Len(q.writeLog[dl.filePath]),
                        !.writingAtIssue = WritingStates(q, dl.filePath) # {}]
        ELSE dl]]

\* The continuations that run once the queue has become q.
resumed(f, q) == [f EXCEPT !.mirror = resumeDeletes(resumeSaves(@, q, SaveIds), q)]

\* saveFile(p, content), the s-th call, from the return of
\* #ensureRuntimeDirectory to the await of the enqueue promise.
SaveFile(s, p) ==
  /\ files.mirror.saves[s].at = "idle"
  /\ s > 1 => files.mirror.saves[s - 1].at # "idle"
  /\ files.mirror.lastRuntimeToken
  /\ Enqueued(queue) < MaxEnqueues
  /\ queue' = enqueue(queue, p)
  /\ files' = [invalidateDirectoryCache(files, {"t1"}) EXCEPT
                  !.mirror = optimisticSave(@, queue', s, p)]
  /\ UNCHANGED exceptQueueFiles

\* The debounce timer of a state fires; saveFile calls whose generation the
\* dispatch resolved canceled return.
SaveTimerFire(o) ==
  /\ queue.objs[o].timer
  /\ queue' = timerElapsed(queue, o)
  /\ files' = resumed(files, queue')
  /\ UNCHANGED exceptQueueFiles

\* The write callback settles: runtimeApi.writeFile has written the file and
\* the cache is invalidated, or the callback has thrown.
SaveWriteSettle(o, ok) ==
  /\ queue.objs[o].writing # 0
  /\ queue' = chainLink(queue, o, ok)
  /\ files' = IF ok
              THEN resumed([invalidateDirectoryCache(files, {"t1"}) EXCEPT
                              !.mirror.remote = @ \cup {queue.objs[o].filePath}], queue')
              ELSE resumed(files, queue')
  /\ UNCHANGED exceptQueueFiles

\* deleteFile(p) from the return of #ensureRuntimeToken to its next await
\* that has to wait: of the flush, or of runtimeApi.delete.
DeleteFile(d, p) ==
  /\ files.mirror.deletes[d].at = "idle"
  /\ d > 1 => files.mirror.deletes[d - 1].at # "idle"
  /\ files.mirror.lastRuntimeToken
  /\ queue.states[p] # 0 => queue.flushes[queue.states[p]] = NoFlush
  /\ queue' = IF queue.states[p] = 0 THEN queue ELSE flushState(queue, queue.states[p])
  /\ files' = resumed([files EXCEPT
                         !.mirror.deletes[d] = [NoDelete EXCEPT !.at = "flush",
                                                                !.filePath = p,
                                                                !.state = queue.states[p]],
                         !.mirror.saves = [s \in SaveIds |->
                                             IF files.mirror.saves[s].filePath = p
                                             THEN [files.mirror.saves[s] EXCEPT
                                                     !.deleted = TRUE]
                                             ELSE files.mirror.saves[s]]], queue')
  /\ UNCHANGED exceptQueueFiles

\* runtimeApi.delete settles: after a success deleteFile cancels the path's
\* writes, invalidates the cache and forgets the file; after a failure it
\* throws.
DeleteSettle(d, ok) ==
  /\ files.mirror.deletes[d].at = "delete"
  /\ LET p == files.mirror.deletes[d].filePath
         m == files.mirror
     IN IF ok
        THEN /\ queue' = IF queue.states[p] = 0 THEN queue
                         ELSE cancelState(queue, queue.states[p])
             /\ files' = resumed([invalidateDirectoryCache(files, {"t1"}) EXCEPT
                            !.mirror.size = IF m.fileMap[p] # Undefined
                                            THEN (IF @ > 0 THEN @ - 1 ELSE 0) ELSE @,
                            !.mirror.fileMap[p] = Undefined,
                            !.mirror.loadedFileContent = @ \ {p},
                            !.mirror.modifiedFiles[p] = Undefined,
                            !.mirror.remote = @ \ {p},
                            !.mirror.deletes[d].at = "done",
                            !.mirror.deletes[d].enqueuedAtReturn =
                               Len(queue.assigned[p])], queue')
        ELSE /\ queue' = queue
             /\ files' = [files EXCEPT
                            !.mirror.deletes[d].at = "failed",
                            !.mirror.deletes[d].enqueuedAtReturn =
                               Len(queue.assigned[p])]
  /\ UNCHANGED exceptQueueFiles

\* cancel() of the write queue.
cancelAll(q) == OverStates(cancelState, q, {q.states[p] : p \in FilePaths} \ {0})

\* The session store publishes another runtime token: the subscriber drops
\* the cache, cancels the queue and starts refreshFromRemote(true).
TokenRotated ==
  /\ files.mirror.tokenEvents < MaxTokenEvents
  /\ queue' = cancelAll(queue)
  /\ files' = resumed([invalidateDirectoryCache(files, RuntimeTokens) EXCEPT
                         !.mirror.tokenEvents = @ + 1,
                         !.mirror.lastRuntimeToken = TRUE,
                         !.mirror.refreshInFlight = TRUE], queue')
  /\ UNCHANGED exceptQueueFiles

\* The session store publishes a state without a runtime token.
TokenLost ==
  /\ files.mirror.tokenEvents < MaxTokenEvents
  /\ files.mirror.lastRuntimeToken
  /\ queue' = cancelAll(queue)
  /\ files' = resumed([invalidateDirectoryCache(files, RuntimeTokens) EXCEPT
                         !.mirror.tokenEvents = @ + 1,
                         !.mirror.lastRuntimeToken = FALSE,
                         !.mirror.fileMap = [p \in FilePaths |-> Undefined],
                         !.mirror.size = 0,
                         !.mirror.loadedFileContent = {}], queue')
  /\ UNCHANGED exceptQueueFiles

\* #refreshFromRemoteInternal after its walk: the files the runtime listed
\* replace the local ones, a file keeping its content when it was loaded.
refreshFromRemoteInternal(m) ==
  LET kept == {p \in m.remote : m.fileMap[p] # Undefined /\ p \in m.loadedFileContent}
  IN [m EXCEPT !.fileMap = [p \in FilePaths |-> IF p \in kept THEN m.fileMap[p]
                                                ELSE IF p \in m.remote THEN Defined(0)
                                                ELSE Undefined],
               !.size = Cardinality(m.remote),
               !.loadedFileContent = kept]

\* The refresh started by the token subscriber ends, applied or failed.
RefreshFromRemoteSettle(ok) ==
  /\ files.mirror.refreshInFlight
  /\ ok => files.mirror.lastRuntimeToken
  /\ files' = [files EXCEPT !.mirror = IF ok THEN refreshFromRemoteInternal(
                                                    [@ EXCEPT !.refreshInFlight = FALSE])
                                       ELSE [@ EXCEPT !.refreshInFlight = FALSE]]
  /\ UNCHANGED <<queue, exceptQueueFiles>>

(***************************************************************************)
(* RemoteFilesStore (browser): refreshFromRemote and its tree walk.        *)
(***************************************************************************)
\* The #listDirectory calls not made yet.
IdleLists(f) == {i \in ListIds : f.lists[i].at = "idle"}

\* The refresh in flight ends: #refreshInFlight is unset and the
\* refreshFromRemote calls awaiting it resolve or reject.
walkEnds(f, ok) ==
  [f EXCEPT !.walk = [NewWalk EXCEPT !.calls = [c \in WalkCallIds |->
     IF f.walk.calls[c].at = "awaiting"
     THEN [f.walk.calls[c] EXCEPT !.at = IF ok THEN "resolved" ELSE "rejected",
                                  !.served = f.walk.served,
                                  !.walkForce = f.walk.force]
     ELSE f.walk.calls[c]]]]

\* walk() of #refreshFromRemoteInternal from the listing of the directory
\* at place `step` of WalkPaths up to the next await that has to wait: the
\* root lists src as a directory, src lists files only.
RECURSIVE walk(_, _)
walk(f, step) ==
  IF step > Len(WalkPaths) THEN walkEnds(f, TRUE)
  ELSE LET i == CHOOSE x \in IdleLists(f) : \A y \in IdleLists(f) : x <= y
           f1 == listDirectory(f, i, "t1", WalkPaths[step], f.walk.force)
       IN IF f1.lists[i].at = "done"
          THEN walk([f1 EXCEPT !.walk.served = @ \cup {WalkPaths[step]}], step + 1)
          ELSE [f1 EXCEPT !.walk.step = step,
                          !.walk.list = i,
                          !.walk.served = IF f1.lists[i].at = "joined"
                                          THEN @ \cup {WalkPaths[step]} ELSE @]

\* refreshFromRemote(force), the c-th call: it awaits the refresh in flight
\* or starts one.
refreshFromRemoteCall(f, c, force) ==
  IF f.walk.refreshInFlight
  THEN [f EXCEPT !.walk.calls[c] = [NoWalkCall EXCEPT !.at = "awaiting", !.force = force]]
  ELSE walk([f EXCEPT !.walk.refreshInFlight = TRUE,
                      !.walk.force = force,
                      !.walk.served = {},
                      !.walk.calls[c] = [NoWalkCall EXCEPT !.at = "awaiting",
                                                           !.force = force]], 1)

\* A call of refreshFromRemote: by #init, the token subscriber or the
\* visibility handler with force, by the refresh timer without.
RefreshFromRemote(c, force) ==
  /\ files.walk.calls[c].at = "idle"
  /\ c > 1 => files.walk.calls[c - 1].at # "idle"
  /\ files.walk.refreshInFlight \/ Cardinality(IdleLists(files)) >= Len(WalkPaths)
  /\ files' = refreshFromRemoteCall(files, c, force)
  /\ UNCHANGED exceptFiles

\* The platform request the walk awaits settles: the walk goes on with the
\* next directory, or the refresh rejects.
WalkListSettle(r, ok) ==
  /\ files.lists[r].at = "request"
  /\ files.walk.refreshInFlight
  /\ LET f1 == listSettled(files, r, ok)
         awaited == files.walk.list
     IN files' = IF f1.lists[awaited].at # "done" THEN f1
                 ELSE IF f1.lists[awaited].failed THEN walkEnds(f1, FALSE)
                 ELSE walk(f1, files.walk.step + 1)
  /\ UNCHANGED exceptFiles

(***************************************************************************)
(* RemotePreviewsStore (browser): the preview status projector.            *)
(***************************************************************************)
SessionKeys == {"chat1:compose1", "chat1:compose2"}
ConnectionStates == {"creating", "ready", "error"}
DeployStatuses == {"undefined", "queued", "running", "done", "error"}
SessionStatuses == {"undefined", "creating", "deploying", "ready", "error"}

\* The RuntimeSessionState values the projector is given: a session with
\* its preview URL and runtime token, or none of them.
SessionStates ==
  {s \in [state : ConnectionStates, sessionKey : SessionKeys, runtimeToken : BOOLEAN,
          session : BOOLEAN, deploymentStatus : DeployStatuses,
          sessionStatus : SessionStatuses] : s.runtimeToken = s.session}


\* DEFAULT_MEMORY()
DefaultMemory(time) ==
  [sessionKey |-> "", queuedSince |-> Undefined, reconnectSince |-> Undefined,
   retryCount |-> 0, lastHealthyAt |-> Undefined, lastTransitionAt |-> time,
   lastState |-> "provisioning"]

\* isErrorSignal
isErrorSignal(state) ==
  \/ state.state = "error"
  \/ state.sessionStatus = "error"
  \/ state.deploymentStatus = "error"

queuedTimedOutLate(queuedElapsedMs) == queuedElapsedMs > QueuedTimeoutMs

\* queuedElapsedMs >= queuedTimeoutMs
queuedTimedOut(queuedElapsedMs) == queuedElapsedMs >= QueuedTimeoutMs

\* deriveRemotePreviewStatus(state, previousMemory, {now: time}); the message
\* is "timeLimit" for the queued time-limit text and "default" for the text
\* of the state.
deriveRemotePreviewStatus(state, previousMemory, time) ==
  LET deploymentStatus == state.deploymentStatus
      sessionStatus == state.sessionStatus
      m0 == IF previousMemory.sessionKey # state.sessionKey
            THEN [sessionKey |-> state.sessionKey, queuedSince |-> Undefined,
                  reconnectSince |-> Undefined, retryCount |-> 0,
                  lastHealthyAt |-> Undefined, lastTransitionAt |-> time,
                  lastState |-> "provisioning"]
            ELSE previousMemory
      m1 == IF deploymentStatus \in {"running", "done"}
            THEN [m0 EXCEPT !.retryCount = 0, !.queuedSince = Undefined]
            ELSE IF deploymentStatus = "queued"
            THEN [m0 EXCEPT !.queuedSince = Defined(OrElse(@, time))]
            ELSE m0
      timedOut == /\ deploymentStatus = "queued"
                  /\ OrElse(m1.queuedSince, 0) # 0
                  /\ queuedTimedOut(time - OrElse(m1.queuedSince, time))
      shouldAutoRedeploy == timedOut /\ m1.retryCount < MaxAutoRetries
      forcedError == timedOut /\ ~(m1.retryCount < MaxAutoRetries)
      m2 == IF shouldAutoRedeploy
            THEN [m1 EXCEPT !.retryCount = @ + 1, !.queuedSince = Defined(time)]
            ELSE m1
      canReconnect == state.runtimeToken /\ m2.lastHealthyAt # Undefined
      reconnectSince == OrElse(m2.reconnectSince, time)
      branch == IF forcedError THEN "forced"
                ELSE IF isErrorSignal(state)
                THEN (IF canReconnect /\ time - reconnectSince < ReconnectGraceMs
                      THEN "reconnecting" ELSE "error")
                ELSE IF \/ state.state = "creating"
                        \/ sessionStatus = "creating"
                        \/ (~state.session /\ ~state.runtimeToken)
                THEN "creating"
                ELSE IF \/ deploymentStatus \in {"queued", "running"}
                        \/ sessionStatus = "deploying"
                THEN "deploying"
                ELSE IF /\ sessionStatus = "ready"
                        /\ \/ deploymentStatus = "done"
                           \/ (deploymentStatus = "undefined" /\ m2.lastHealthyAt # Undefined)
                THEN "ready"
                ELSE IF state.session THEN "previewUrl"
                ELSE "none"
      nextState == CASE branch = "forced" -> "error"
                     [] branch = "reconnecting" -> "reconnecting"
                     [] branch = "error" -> "error"
                     [] branch = "creating" -> "provisioning"
                     [] branch = "deploying" -> "deploying"
                     [] branch = "ready" -> "ready"
                     [] branch = "previewUrl" -> "deploying"
                     [] OTHER -> "provisioning"
      m3 == CASE branch = "reconnecting" -> [m2 EXCEPT !.reconnectSince = Defined(reconnectSince)]
              [] branch \in {"creating", "deploying", "previewUrl"} ->
                    [m2 EXCEPT !.reconnectSince = Undefined]
              [] branch = "ready" ->
                    [m2 EXCEPT !.lastHealthyAt = Defined(time),
                               !.reconnectSince = Undefined,
                               !.queuedSince = Undefined]
              [] OTHER -> m2
      lastTransitionAt == IF m3.lastState = nextState THEN m3.lastTransitionAt ELSE time
  IN [snapshot |-> [state |-> nextState,
                    message |-> IF forcedError THEN "timeLimit" ELSE "default",
                    retryCount |-> m3.retryCount,
                    queuedSince |-> m3.queuedSince,
                    lastTransitionAt |-> lastTransitionAt],
      memory |-> [m3 EXCEPT !.lastState = nextState, !.lastTransitionAt = lastTransitionAt],
      shouldAutoRedeploy |-> shouldAutoRedeploy]

\* A run of projections for one session key, from `since` to `at`; it is
\* `queued` while every one of them saw deploymentStatus queued, and
\* `redeploys` are the times shouldAutoRedeploy was emitted in it.
NoRun == [sessionKey |-> "", queued |-> FALSE, since |-> 0, at |-> 0, redeploys |-> <<>>]

\* No projection made yet.  Of the last projection, `present` tells that the
\* session state had an error signal, `since` is the time of the first of
\* the projections in a row that had one, `erredBefore` tells that one of the
\* earlier projections of that row put out error, `erred` that one of the row
\* did; `at` is its time, `output` the state it put out and `canReconnect`
\* tells that it had a runtime token and a lastHealthyAt.
NoSignal == [present |-> FALSE, since |-> 0, erredBefore |-> FALSE, erred |-> FALSE,
             at |-> 0, output |-> "provisioning", canReconnect |-> FALSE]

\* new RemotePreviewsStore() before its first #syncSessionState; `previous`
\* holds the state and lastTransitionAt of the snapshot published before the
\* one in `status`, the first snapshot being that of the constructor's
\* #syncSessionState call.
NewPreview == [clock |-> PreviewStep,
               memory |-> DefaultMemory(PreviewStep),
               status |-> [state |-> "provisioning", message |-> "default", retryCount |-> 0,
                           queuedSince |-> Undefined, lastTransitionAt |-> PreviewStep],
               shouldAutoRedeploy |-> FALSE,
               run |-> NoRun,
               previous |-> Undefined,
               signal |-> NoSignal]

\* Date.now() moves on.
PreviewTick ==
  /\ preview.clock < (MaxPreviewTicks + 1) * PreviewStep
  /\ preview' = [preview EXCEPT !.clock = @ + PreviewStep]
  /\ UNCHANGED exceptPreview

\* #syncSessionState with the session state the store holds.
syncSessionState(pv, state) ==
  LET derived == deriveRemotePreviewStatus(state, pv.memory, pv.clock)
      run == IF pv.run.sessionKey # state.sessionKey
             THEN [sessionKey |-> state.sessionKey, queued |-> TRUE,
                   since |-> pv.clock, at |-> pv.clock, redeploys |-> <<>>]
             ELSE pv.run
  IN [pv EXCEPT
        !.memory = derived.memory,
        !.status = derived.snapshot,
        !.shouldAutoRedeploy = derived.shouldAutoRedeploy,
        !.run = [run EXCEPT
                   !.queued = @ /\ state.deploymentStatus = "queued",
                   !.at = pv.clock,
                   !.redeploys = IF derived.shouldAutoRedeploy
                                 THEN Append(@, pv.clock) ELSE @]]

\* The session store publishes a state, or the constructor runs.
SyncSessionState(state) ==
  /\ preview' = syncSessionState(preview, state)
  /\ UNCHANGED exceptPreview

\* What #syncSessionState leaves for a session state, `next`, with the
\* record of what it projected and of the snapshot it replaced in pv.
published(pv, next, state) ==
  [next EXCEPT
     !.previous = IF pv.memory.sessionKey = "" THEN Undefined
                  ELSE Defined([state |-> pv.status.state,
                                lastTransitionAt |-> pv.status.lastTransitionAt]),
     !.signal = [present |-> isErrorSignal(state),
                 since |-> IF isErrorSignal(state) /\ pv.signal.present
                           THEN pv.signal.since ELSE pv.clock,
                 erredBefore |-> isErrorSignal(state) /\ pv.signal.present
                                 /\ pv.signal.erred,
                 erred |-> /\ isErrorSignal(state)
                           /\ \/ pv.signal.present /\ pv.signal.erred
                              \/ next.status.state = "error",
                 at |-> pv.clock,
                 output |-> next.status.state,
                 canReconnect |-> state.runtimeToken
                                  /\ next.memory.lastHealthyAt # Undefined]]

\* The session store publishes a state.
Publish(state) ==
  /\ \E next \in {syncSessionState(preview, state)} :
        preview' = published(preview, next, state)
  /\ UNCHANGED exceptPreview

\* The catch handler of refreshAllPreviews.
refreshCatch(pv) ==
  LET nextState == IF pv.status.state = "error" THEN "error" ELSE "reconnecting"
  IN [pv EXCEPT !.previous = Defined([state |-> pv.status.state,
                                      lastTransitionAt |-> pv.status.lastTransitionAt]),
                !.status = [@ EXCEPT !.state = nextState,
                                     !.message = "default",
                                     !.lastTransitionAt = pv.clock]]

\* refreshAllPreviews() whose refreshSession call rejects with another
\* status than 401: the session store has published its state with state
\* 'error', and the catch handler publishes a snapshot of its own.  (The
\* #syncSessionState call refreshAllPreviews starts with is a Publish step.)
RefreshAllPreviewsRejected(state) ==
  /\ state.state = "error"
  /\ \E next \in {syncSessionState(preview, state)} :
        \E shown \in {published(preview, next, state)} :
           preview' = refreshCatch(shown)
  /\ UNCHANGED exceptPreview

(***************************************************************************)
(* path-mapper.ts: virtual paths to runtime paths.  A string is the        *)
(* sequence of its characters.                                             *)
(***************************************************************************)
\* WORK_DIR
WorkDir == <<"/", "h", "o", "m", "e", "/", "p", "r", "o", "j", "e", "c", "t">>

\* What the inputs are written with: single characters, percent escapes
\* (of ".", of NUL, and a malformed one) and a drive letter with its colon.
\* The inputs: one of three beginnings followed by up to MaxPathLen pieces.
PathChars == {"a", ".", "/", "\\"}

PathPieces ==
  {<<c>> : c \in PathChars}
    \cup {<<"%", "2", "e">>, <<"%", "0", "0">>, <<"%", "z", "z">>, <<"C", ":">>}

RECURSIVE Tails(_)
Tails(n) ==
  IF n = 0 THEN {<<>>}
  ELSE Tails(n - 1) \cup {tail \o piece : tail \in Tails(n - 1), piece \in PathPieces}

Backslashed(value) ==
  [i \in 1..Len(value) |-> IF value[i] = "/" THEN "\\" ELSE value[i]]

PathInputs ==
  {head \o tail : head \in {<<>>, WorkDir, Backslashed(WorkDir)},
                  tail \in Tails(MaxPathLen)}

\* value.replaceAll('\\', '/')
normalize(value) ==
  [i \in 1..Len(value) |-> IF value[i] = "\\" THEN "/" ELSE value[i]]

\* String.prototype.slice(start)
slice(value, start) == SubSeq(value, start + 1, Len(value))

\* String.prototype.startsWith
startsWith(value, prefix) ==
  /\ Len(value) >= Len(prefix)
  /\ SubSeq(value, 1, Len(prefix)) = prefix

stripOneSlash(value) ==
  IF value # <<>> /\ value[1] = "/" THEN slice(value, 1) ELSE value

\* value.replace(/^\/+/, '')
stripLeadingSlash(value) ==
  LET leading == {n \in 0..Len(value) : \A i \in 1..n : value[i] = "/"}
      n == CHOOSE k \in leading : \A l \in leading : l <= k
  IN slice(value, n)

\* String.prototype.split('/')
RECURSIVE split(_)
split(value) ==
  LET cuts == {i \in 1..Len(value) : value[i] = "/"}
  IN IF cuts = {} THEN <<value>>
     ELSE LET i == CHOOSE c \in cuts : \A d \in cuts : c <= d
          IN <<SubSeq(value, 1, i - 1)>> \o split(slice(value, i))

\* TRUE when ensureNoTraversal returns, FALSE when it throws
ensureNoTraversal(value) ==
  LET segments == SelectSeq(split(normalize(value)), LAMBDA segment : segment # <<>>)
  IN ~\E i \in 1..Len(segments) : segments[i] = <<".", ".">>

Returns(value) == [error |-> "", value |-> value]
Throws(message) == [error |-> message, value |-> <<>>]

toRuntimePath(virtualPath) ==
  LET normalized == normalize(virtualPath)
  IN IF normalized = WorkDir \/ normalized = WorkDir \o <<"/">>
     THEN Returns(<<>>)
     ELSE IF startsWith(normalized, WorkDir \o <<"/">>)
     THEN LET candidate == slice(normalized, Len(WorkDir) + 1)
          IN IF ensureNoTraversal(candidate)
             THEN Returns(stripLeadingSlash(candidate))
             ELSE Throws("Invalid runtime path")
     ELSE LET candidate == stripLeadingSlash(normalized)
          IN IF ensureNoTraversal(candidate)
             THEN Returns(candidate)
             ELSE Throws("Invalid runtime path")

\* One call: the input it is given and, once made, how it ended.
NewMapping(input) == [input |-> input, called |-> FALSE, result |-> Returns(<<>>)]

ToRuntimePath ==
  /\ ~mapping.called
  /\ mapping' = [mapping EXCEPT !.called = TRUE,
                                !.result = toRuntimePath(mapping.input)]
  /\ UNCHANGED exceptMapping

(***************************************************************************)
(* The token-scoped routes: api.runtime.files.write.ts, the delete intent  *)
(* of api.runtime.session.ts and its heartbeat.  One request is handled at *)
(* a time.  The request carries a runtime token, and whatever compose and  *)
(* project identifiers its sender put into the body or the query.  Every   *)
(* call the handler makes on the platform is logged in route.sent with the *)
(* compose id it carries (0 for a call that carries none).                 *)
(***************************************************************************)
\* Identifiers a request can carry: one more than the platform has.
RouteComposeIds == 1 .. (MaxComposes + 1)
RouteProjectIds == 1 .. 2

NoClaims == [valid |-> FALSE, composeId |-> 0, projectId |-> 0]

\* What jwtVerify makes of the token: it throws, or it returns the claims.
RuntimeTokenClaims ==
  [valid : BOOLEAN, composeId : ComposeIds, projectId : {1}]

\* Identifiers of the body or the query (0: none supplied).
NoSupplied == [composeId |-> 0, projectId |-> 0]
Supplied == [composeId : {0} \cup RouteComposeIds, projectId : {0} \cup RouteProjectIds]

RedeployTriggerPaths ==
  {
   <<"p", "a", "c", "k", "a", "g", "e", ".", "j", "s", "o", "n">>,
   <<"p", "a", "c", "k", "a", "g", "e", "-", "l", "o", "c", "k", ".", "j", "s", "o", "n">>,
   <<"p", "n", "p", "m", "-", "l", "o", "c", "k", ".", "y", "a", "m", "l">>,
   <<"y", "a", "r", "n", ".", "l", "o", "c", "k">>,
   <<"b", "u", "n", ".", "l", "o", "c", "k", "b">>,
   <<"d", "o", "c", "k", "e", "r", "-", "c", "o", "m", "p", "o", "s", "e", ".", "y", "m", "l">>}

\* String.prototype.toLowerCase, on the letters the inputs contain.
toLowerCase(value) ==
  [k \in DOMAIN value |-> IF value[k] = "Y" THEN "y"
                          ELSE IF value[k] = "C" THEN "c" ELSE value[k]]

\* path.join(WORK_DIR, safePath) for a safePath without empty or dot segments.
toVirtualPath(runtimePath) ==
  LET safePath == stripLeadingSlash(normalize(runtimePath))
  IN IF ~ensureNoTraversal(safePath) THEN Throws("Invalid runtime path")
     ELSE IF safePath = <<>> THEN Returns(WorkDir)
     ELSE Returns(WorkDir \o <<"/">> \o safePath)

isRedeployTriggerPath(virtualPath) ==
  LET runtimePath == toRuntimePath(virtualPath)
  IN /\ runtimePath.error = ""
     /\ toLowerCase(runtimePath.value) \in RedeployTriggerPaths

\* body.path of a write request.
RoutePaths ==
  {<<>>,
   <<"a">>,
   <<".", ".", "/", "a">>,
   <<"y", "a", "r", "n", ".", "l", "o", "c", "k">>,
   <<"Y", "a", "r", "n", ".", "l", "o", "c", "k">>,
   <<"a", "/", "y", "a", "r", "n", ".", "l", "o", "c", "k">>,
   WorkDir \o <<"/", "y", "a", "r", "n", ".", "l", "o", "c", "k">>}

NewRoute ==
  [operation |-> "", claims |-> NoClaims, supplied |-> NoSupplied,
   path |-> <<>>, pc |-> "idle", step |-> 0, expired |-> <<>>,
   sent |-> <<>>, status |-> 0, runtimeToken |-> NoClaims]

\* The serviceId / composeId argument of a call on the session's compose.
targetComposeIdFromBody(r) ==
  IF r.supplied.composeId # 0 THEN r.supplied.composeId ELSE r.claims.composeId

\* serviceId: claims.composeId
targetComposeId(r) == r.claims.composeId

\* The handler issues a platform call and awaits it.
Issue(r, procedure, composeId) ==
  [r EXCEPT !.pc = "await", !.step = @ + 1,
            !.sent = Append(@, [procedure |-> procedure, composeId |-> composeId])]

\* The handler answers.
Respond(r, status) == [r EXCEPT !.pc = "done", !.status = status]

InFlight(r) == r.sent[Len(r.sent)].procedure

Arrive(operation, token, supplied, path) ==
  [NewRoute EXCEPT !.operation = operation, !.claims = token,
                   !.supplied = supplied, !.path = path]

\* POST /api/runtime/files/write
RouteWrite(token, supplied, rawPath) ==
  /\ route.pc = "idle"
  /\ LET path == toRuntimePath(rawPath)
         r == Arrive("write", token, supplied, path.value)
     IN route' =
          IF path.error # "" THEN Respond(r, 400)
          ELSE IF path.value = <<>> THEN Respond(r, 400)
          ELSE IF ~token.valid THEN Respond(r, 500)
          ELSE Issue(r, "file.write", targetComposeId(r))
  /\ UNCHANGED exceptRoute

\* DELETE /api/runtime/session
RouteDelete(token, supplied) ==
  /\ route.pc = "idle"
  /\ LET r == Arrive("delete", token, supplied, <<>>)
     IN route' = IF ~token.valid THEN Respond(r, 500)
                 ELSE Issue(r, "compose.delete", targetComposeId(r))
  /\ UNCHANGED exceptRoute

\* POST /api/runtime/session, intent heartbeat
RouteHeartbeat(token, supplied) ==
  /\ route.pc = "idle"
  /\ LET r == Arrive("heartbeat", token, supplied, <<>>)
     IN route' = IF ~token.valid THEN Respond(r, 500)
                 ELSE Issue(r, "compose.one", targetComposeId(r))
  /\ UNCHANGED exceptRoute

\* The calls of getRuntimeSession and heartbeatRuntimeSession, in order,
\* up to the sweep.
HeartbeatCalls ==
  <<"compose.one", "deployment.allByCompose", "domain.byComposeId",
    "compose.one", "compose.update">>

\* The token the heartbeat signs for its answer.
nextRuntimeToken(r) ==
  [valid |-> TRUE, composeId |-> r.claims.composeId, projectId |-> r.claims.projectId]

\* The sweep deletes the next expired compose of its listing, or the
\* heartbeat answers.
SweepOn(r) ==
  IF r.expired # <<>>
  THEN Issue([r EXCEPT !.expired = Tail(@)], "compose.delete", Head(r.expired))
  ELSE [Respond(r, 200) EXCEPT !.runtimeToken = nextRuntimeToken(r)]

\* A call on the session's compose settles.
RouteSettle(ok) ==
  /\ route.pc = "await"
  /\ ~(route.operation = "heartbeat" /\ route.step > Len(HeartbeatCalls))
  /\ route' =
       IF ~ok THEN Respond(route, 502)
       ELSE IF route.operation = "write"
       THEN IF /\ InFlight(route) = "file.write"
               /\ toVirtualPath(route.path).error = ""
               /\ isRedeployTriggerPath(toVirtualPath(route.path).value)
            THEN Issue(route, "compose.redeploy", targetComposeId(route))
            ELSE Respond(route, 200)
       ELSE IF route.operation = "delete" THEN Respond(route, 200)
       ELSE IF route.step < Len(HeartbeatCalls)
       THEN Issue(route, HeartbeatCalls[route.step + 1], targetComposeId(route))
       ELSE Issue(route, "project.all", 0)
  /\ UNCHANGED exceptRoute

\* The sweep's project.all settles: expired lists the composes of the
\* token's actor that the listing shows as expired.  No other request runs,
\* so the actor's cleanup lock is free when the heartbeat reaches the sweep.
RouteListSettle(ok, expired) ==
  /\ route.pc = "await"
  /\ route.operation = "heartbeat"
  /\ InFlight(route) = "project.all"
  /\ route' = IF ~ok THEN Respond(route, 502)
              ELSE SweepOn([route EXCEPT !.expired = expired])
  /\ UNCHANGED exceptRoute

\* A compose.delete of the sweep settles; its failure is swallowed.
RouteSweepDeleteSettle(ok) ==
  /\ route.pc = "await"
  /\ route.operation = "heartbeat"
  /\ route.step > Len(HeartbeatCalls)
  /\ InFlight(route) = "compose.delete"
  /\ route' = SweepOn(route)
  /\ UNCHANGED exceptRoute

\* What project.all can show as expired: composes in the order of the listing.
RouteListings ==
  {l \in UNION {[1 .. n -> ComposeIds] : n \in 0 .. MaxComposes} :
     \A a, b \in DOMAIN l : a < b => l[a] < l[b]}

\* The next request arrives.
RouteNext ==
  /\ route.pc = "done"
  /\ route' = NewRoute
  /\ UNCHANGED exceptRoute

(***************************************************************************)
(* The browser's RuntimeSessionStore: the sessionState atom and the        *)
(* heartbeat() calls in flight.  The timer and the visibility handler each *)
(* call heartbeat() without waiting for the other, so calls overlap.       *)
(***************************************************************************)
HeartbeatIds == 1 .. MaxHeartbeats

\* const initialState, in a build with the dokploy runtime.
initialState ==
  [provider |-> "dokploy", state |-> "idle", chatId |-> Undefined,
   runtimeToken |-> Undefined, session |-> Undefined,
   deploymentStatus |-> Undefined, sessionStatus |-> Undefined, error |-> Undefined]

\* What ensureSession sets when createSession answers.
CreatedState(runtimeToken, expiresAt, status) ==
  [initialState EXCEPT !.state = "ready", !.chatId = Defined("chat1"),
                       !.runtimeToken = Defined(runtimeToken),
                       !.session = Defined([composeId |-> "chat1", expiresAt |-> expiresAt,
                                            status |-> status]),
                       !.deploymentStatus = Defined("queued"),
                       !.sessionStatus = Defined(status)]

\* The states ensureSession and refreshSession leave the atom in: creating,
\* ready with a session, and a failed refresh of such a session.
StoreStates ==
  {initialState,
   [initialState EXCEPT !.state = "creating", !.chatId = Defined("chat1"),
                        !.sessionStatus = Defined("creating")],
   CreatedState("t1", T0, "deploying"),
   CreatedState("t1", T0, "ready"),
   [CreatedState("t1", T0, "deploying") EXCEPT !.state = "error",
                                               !.error = Defined("failed")],
   [CreatedState("t1", T0, "ready") EXCEPT !.state = "error",
                                           !.error = Defined("failed")]}

\* RuntimeHeartbeatResponse
HeartbeatResponses ==
  [expiresAt : {T0, T0 + IdleTtlMs},
   status : SessionStatuses \ {"undefined"},
   runtimeToken : {Undefined} \cup {Defined(t) : t \in RuntimeTokens}]

NoHeartbeat == [pc |-> "idle", current |-> initialState, result |-> Undefined]

EnsureIds == 1 .. MaxEnsures
RefreshIds == 1 .. MaxRefreshes
TeardownIds == 1 .. MaxTeardowns
StoreChats == {"chat1", "chat2"}

\* A call of ensureSession: its input, where it stands, the promise it
\* awaits and what its own promise settled with.
NoEnsure ==
  [pc |-> "idle", chatId |-> "", force |-> FALSE, awaits |-> 0,
   result |-> Undefined, restarts |-> 0, duringCreateFor |-> ""]

NoRefreshCall == [pc |-> "idle", current |-> initialState]

NoTeardown == [pc |-> "idle"]

\* createSessionPromise is 0 (undefined) or the ensureSession call that made
\* the promise; created logs the createSession requests issued; torn is set
\* by #reset and cleared when a createSession answers.
NewStore(state) ==
  [isDokployRuntime |-> TRUE, sessionState |-> state,
   heartbeats |-> [h \in HeartbeatIds |-> NoHeartbeat],
   createSessionPromise |-> 0,
   ensures |-> [k \in EnsureIds |-> NoEnsure],
   refreshes |-> [r \in RefreshIds |-> NoRefreshCall],
   teardowns |-> [d \in TeardownIds |-> NoTeardown],
   created |-> <<>>,
   torn |-> FALSE]

\* this.sessionState.set({ ...current, state: 'ready', session: updatedSession,
\*                         sessionStatus: result.status, error: undefined })
heartbeatState(current, result) ==
  [current EXCEPT !.state = "ready",
                  !.session = IF @ = Undefined THEN @
                              ELSE Defined([@[1] EXCEPT !.expiresAt = result.expiresAt]),
                  !.sessionStatus = Defined(result.status),
                  !.error = Undefined]

\* heartbeat() is called: it returns undefined at once or awaits
\* runtimeApi.heartbeat(current.runtimeToken).
Heartbeat(h) ==
  /\ store.heartbeats[h].pc = "idle"
  /\ LET current == store.sessionState
     IN store' =
          IF ~store.isDokployRuntime \/ current.runtimeToken = Undefined
          THEN [store EXCEPT !.heartbeats[h].pc = "returned"]
          ELSE [store EXCEPT !.heartbeats[h].pc = "await",
                             !.heartbeats[h].current = current]
  /\ UNCHANGED exceptStore

\* runtimeApi.heartbeat settles: heartbeat() resolves with the response or
\* rejects with the error.
HeartbeatSettle(h, ok, result) ==
  /\ store.heartbeats[h].pc = "await"
  /\ store' =
       IF ok
       THEN [store EXCEPT !.sessionState = heartbeatState(store.heartbeats[h].current, result),
                          !.heartbeats[h].pc = "resolved",
                          !.heartbeats[h].result = Defined(result)]
       ELSE [store EXCEPT !.heartbeats[h].pc = "rejected"]
  /\ UNCHANGED exceptStore

\* The token and the session createSession answers with: the server keeps
\* one compose per chat of the actor, named here by the chat.
tokenOf(chatId) == IF chatId = "chat1" THEN "t1" ELSE "t2"

createSessionResult(chatId) ==
  [runtimeToken |-> tokenOf(chatId),
   session |-> [composeId |-> chatId, expiresAt |-> T0 + IdleTtlMs, status |-> "deploying"],
   deploymentStatus |-> "queued"]

\* sessionState.set({ provider, chatId, state: 'creating', ... }) and
\* this.#createSessionPromise = runtimeApi.createSession(...)...
beginCreate(st, k) ==
  [st EXCEPT !.sessionState =
               [initialState EXCEPT !.state = "creating",
                                    !.chatId = Defined(st.ensures[k].chatId),
                                    !.sessionStatus = Defined("creating")],
             !.createSessionPromise = k,
             !.created = Append(@, [chatId |-> st.ensures[k].chatId, by |-> k]),
             !.ensures[k].pc = "creating"]

\* ensureSession from its first line to its first await or its return, for
\* the call k whose input is in st.ensures[k].
ensureSession(st, k) ==
  LET chatId == st.ensures[k].chatId
      force == st.ensures[k].force
      current == st.sessionState
      shouldReplace == /\ current.runtimeToken # Undefined
                       /\ (force \/ current.chatId # Defined(chatId))
  IN IF ~st.isDokployRuntime
     THEN [st EXCEPT !.ensures[k].pc = "resolved"]
     ELSE IF /\ ~force
             /\ current.runtimeToken # Undefined
             /\ current.chatId = Defined(chatId)
             /\ current.session # Undefined
     THEN [st EXCEPT !.ensures[k].pc = "resolved", !.ensures[k].result = current.session]
     ELSE IF st.createSessionPromise # 0
     THEN IF shouldReplace
          THEN [st EXCEPT !.ensures[k].pc = "awaitOld",
                          !.ensures[k].awaits = st.createSessionPromise]
          ELSE [st EXCEPT !.ensures[k].pc = "joined",
                          !.ensures[k].awaits = st.createSessionPromise]
     ELSE IF shouldReplace
     THEN [st EXCEPT !.ensures[k].pc = "deleting"]
     ELSE beginCreate(st, k)

\* The chat of the createSession request in flight ("" when there is none).
inFlightChat(st) ==
  IF st.createSessionPromise = 0 THEN ""
  ELSE st.ensures[st.createSessionPromise].chatId

\* ensureSession({ chatId, force }) is called.
EnsureSession(k, chatId, force) ==
  /\ store.ensures[k].pc = "idle"
  /\ store' = ensureSession([store EXCEPT !.ensures[k].chatId = chatId,
                                          !.ensures[k].force = force,
                                          !.ensures[k].duringCreateFor = inFlightChat(store)], k)
  /\ UNCHANGED exceptStore

\* runtimeApi.deleteSession of the session being replaced settles; its
\* failure is logged and the create goes on.
EnsureDeleteSettle(k) ==
  /\ store.ensures[k].pc = "deleting"
  /\ store' = beginCreate(store, k)
  /\ UNCHANGED exceptStore

\* The calls that returned the promise of call k settle with it.
settleJoined(ensures, k, outcome, result) ==
  [j \in EnsureIds |->
     IF j = k \/ (ensures[j].pc = "joined" /\ ensures[j].awaits = k)
     THEN [ensures[j] EXCEPT !.pc = outcome, !.result = result]
     ELSE ensures[j]]

\* runtimeApi.createSession settles: then or catch, and finally.
CreateSettle(k, ok) ==
  /\ store.ensures[k].pc = "creating"
  /\ LET chatId == store.ensures[k].chatId
         result == createSessionResult(chatId)
     IN store' =
          IF ok
          THEN [store EXCEPT
                  !.sessionState =
                     [initialState EXCEPT !.state = "ready", !.chatId = Defined(chatId),
                                          !.runtimeToken = Defined(result.runtimeToken),
                                          !.session = Defined(result.session),
                                          !.deploymentStatus = Defined(result.deploymentStatus),
                                          !.sessionStatus = Defined(result.session.status)],
                  !.createSessionPromise = 0,
                  !.torn = FALSE,
                  !.ensures = settleJoined(@, k, "resolved", Defined(result.session))]
          ELSE [store EXCEPT
                  !.sessionState =
                     [initialState EXCEPT !.state = "error", !.chatId = Defined(chatId),
                                          !.error = Defined("failed")],
                  !.createSessionPromise = 0,
                  !.ensures = settleJoined(@, k, "rejected", Undefined)]
  /\ UNCHANGED exceptStore

\* The create a call waited for has settled: return this.ensureSession(input).
EnsureRestart(k) ==
  /\ store.ensures[k].pc = "awaitOld"
  /\ store.ensures[store.ensures[k].awaits].pc \in {"resolved", "rejected"}
  /\ store.ensures[k].restarts < MaxRestarts
  /\ store' = ensureSession([store EXCEPT !.ensures[k].restarts = @ + 1,
                                          !.ensures[k].awaits = 0], k)
  /\ UNCHANGED exceptStore

\* #reset: the timers stop and the atom goes back to idle.
reset(st) ==
  [st EXCEPT !.sessionState = initialState, !.torn = TRUE]

\* RuntimeSessionGetResponse
GetSessionResponses ==
  [session : [composeId : StoreChats, expiresAt : {T0 + IdleTtlMs}, status : {"ready"}],
   deploymentStatus : {"done"}, sessionStatus : {"ready"}]

\* What a failed getSession rejects with.
GetSessionErrors == {401, 502}

\* refreshSession() is called.
RefreshSession(r) ==
  /\ store.refreshes[r].pc = "idle"
  /\ LET current == store.sessionState
     IN store' =
          IF ~store.isDokployRuntime \/ current.runtimeToken = Undefined
          THEN [store EXCEPT !.refreshes[r].pc = "returned"]
          ELSE [store EXCEPT !.refreshes[r].pc = "await", !.refreshes[r].current = current]
  /\ UNCHANGED exceptStore

\* runtimeApi.getSession answers.
GetSessionSettle(r, result) ==
  /\ store.refreshes[r].pc = "await"
  /\ result.session.composeId = store.refreshes[r].current.session[1].composeId
  /\ store' = [store EXCEPT
                 !.sessionState =
                    [store.refreshes[r].current EXCEPT
                       !.state = "ready",
                       !.session = Defined(result.session),
                       !.deploymentStatus = Defined(result.deploymentStatus),
                       !.sessionStatus = Defined(result.sessionStatus),
                       !.error = Undefined],
                 !.refreshes[r].pc = "resolved"]
  /\ UNCHANGED exceptStore

\* runtimeApi.getSession fails: a 401 resets the store, any other error is
\* shown; refreshSession rejects.
GetSessionFail(r, status) ==
  /\ store.refreshes[r].pc = "await"
  /\ store' =
       IF status = 401
       THEN [reset(store) EXCEPT !.refreshes[r].pc = "rejected"]
       ELSE [store EXCEPT
               !.sessionState = [store.refreshes[r].current EXCEPT
                                   !.state = "error", !.error = Defined("failed")],
               !.refreshes[r].pc = "rejected"]
  /\ UNCHANGED exceptStore

\* teardownSession() is called.
TeardownSession(d) ==
  /\ store.teardowns[d].pc = "idle"
  /\ store' =
       IF ~store.isDokployRuntime THEN [store EXCEPT !.teardowns[d].pc = "resolved"]
       ELSE IF store.sessionState.runtimeToken # Undefined
       THEN [store EXCEPT !.teardowns[d].pc = "deleting"]
       ELSE [reset(store) EXCEPT !.teardowns[d].pc = "resolved"]
  /\ UNCHANGED exceptStore

\* runtimeApi.deleteSession settles either way; teardownSession resets.
TeardownSettle(d) ==
  /\ store.teardowns[d].pc = "deleting"
  /\ store' = [reset(store) EXCEPT !.teardowns[d].pc = "resolved"]
  /\ UNCHANGED exceptStore

(***************************************************************************)
(* dokploy-client.ts: one call of DokployClient.#request, which every      *)
(* platform procedure goes through.                                        *)
(***************************************************************************)
\* Math.min / Math.max
Min(a, b) == IF a < b THEN a ELSE b
Max(a, b) == IF a > b THEN a ELSE b

TransientHttpStatuses == {408, 425, 429, 500, 502, 503, 504}

DefaultMaxRetries == 2

\* The maxRetries option of the constructor: absent, or an integer.
RetryOptions == {Undefined} \cup {Defined(n) : n \in (-1)..MaxRetriesOption}

TrpcCodes ==
  {"UNAUTHORIZED", "FORBIDDEN", "NOT_FOUND", "BAD_REQUEST", "CONFLICT",
   "PAYLOAD_TOO_LARGE", "TOO_MANY_REQUESTS", "NOT_IMPLEMENTED",
   "INTERNAL_SERVER_ERROR", "TIMEOUT"}

\* HTTP statuses of responses that are not ok and carry no tRPC error
HttpStatuses == {302, 404, 409, 413, 503}

mapTrpcCodeToHttp(code) ==
  CASE code = "UNAUTHORIZED" -> 401
    [] code = "FORBIDDEN" -> 403
    [] code = "NOT_FOUND" -> 404
    [] code = "BAD_REQUEST" -> 400
    [] code = "CONFLICT" -> 409
    [] code = "PAYLOAD_TOO_LARGE" -> 413
    [] code = "TOO_MANY_REQUESTS" -> 429
    [] code = "NOT_IMPLEMENTED" -> 501
    [] OTHER -> 502

sanitizeStatus(status) ==
  IF status >= 400 /\ status <= 599 THEN status ELSE 502

\* What one fetch and the reading of its body come to: a result, an envelope
\* with a tRPC error, a response that is not ok, a body that is not JSON, an
\* envelope that is none, the abort of the timeout, a network failure, or
\* anything else thrown.
FetchOutcome(kind, code, status) == [kind |-> kind, code |-> code, status |-> status]

FetchOutcomes ==
  {FetchOutcome("result", "", 200)}
    \cup {FetchOutcome("trpcError", code, 200) : code \in TrpcCodes}
    \cup {FetchOutcome("notOk", "", status) : status \in HttpStatuses}
    \cup {FetchOutcome(kind, "", 200) :
            kind \in {"invalidJson", "invalidEnvelope", "abort", "network", "other"}}

DokployClientError(status, code) == [status |-> status, code |-> code]

NoClientError == DokployClientError(0, "")

\* #parsePayload and #extractResult throw a DokployClientError; #normalizeError
\* keeps it and turns what fetch throws into one.
normalizeError(outcome) ==
  CASE outcome.kind = "trpcError" ->
         DokployClientError(mapTrpcCodeToHttp(outcome.code), outcome.code)
    [] outcome.kind = "notOk" ->
         DokployClientError(sanitizeStatus(outcome.status), "HTTP_ERROR")
    [] outcome.kind = "invalidJson" -> DokployClientError(502, "INVALID_JSON_RESPONSE")
    [] outcome.kind = "invalidEnvelope" -> DokployClientError(502, "INVALID_TRPC_RESPONSE")
    [] outcome.kind = "abort" -> DokployClientError(504, "TIMEOUT")
    [] outcome.kind = "network" -> DokployClientError(502, "NETWORK_ERROR")
    [] OTHER -> DokployClientError(502, "INTERNAL_SERVER_ERROR")

isRetryableServerErrors(error) == error.status >= 500

\* #isRetryable
isRetryable(error) == error.status \in TransientHttpStatuses

\* The call: the client's #maxRetries, the loop's attempt, where the call
\* stands, its error once thrown; fetches and outcomes record what was sent
\* and what came back.
NewRequest(option) ==
  [maxRetries |-> Max(0, OrElse(option, DefaultMaxRetries)),
   attempt |-> 0,
   phase |-> "idle",
   error |-> NoClientError,
   fetches |-> 0,
   outcomes |-> <<>>]

maxAttempts(r) == r.maxRetries + 1

isLastAttemptNever(r) == FALSE

isLastAttempt(r) == r.attempt + 1 >= maxAttempts(r)

\* while (attempt < maxAttempts) { ... fetch ... }, then RETRY_EXHAUSTED
enterLoop(r) ==
  IF r.attempt < maxAttempts(r)
  THEN [r EXCEPT !.phase = "fetching", !.fetches = @ + 1]
  ELSE [r EXCEPT !.phase = "thrown",
                 !.error = DokployClientError(502, "RETRY_EXHAUSTED")]

RequestStart ==
  /\ request.phase = "idle"
  /\ request' = enterLoop(request)
  /\ UNCHANGED exceptRequest

FetchSettle(outcome) ==
  /\ request.phase = "fetching"
  /\ LET logged == [request EXCEPT !.outcomes = Append(@, outcome)]
         normalizedError == normalizeError(outcome)
     IN request' =
          IF outcome.kind = "result"
          THEN [logged EXCEPT !.phase = "returned"]
          ELSE IF ~isRetryable(normalizedError) \/ isLastAttempt(request)
          THEN [logged EXCEPT !.phase = "thrown", !.error = normalizedError]
          ELSE [logged EXCEPT !.phase = "sleeping"]
  /\ UNCHANGED exceptRequest

\* sleep(getRetryDelayMs(attempt)) is over
SleepDone ==
  /\ request.phase = "sleeping"
  /\ request' = enterLoop([request EXCEPT !.attempt = @ + 1])
  /\ UNCHANGED exceptRequest

(***************************************************************************)
(* RemoteFilesStore (browser): the refresh scheduler.                      *)
(***************************************************************************)
getHiddenRefreshDelayFlat(hiddenAttempt) == RemoteRefreshVisibleIntervalMs

\* getHiddenRefreshDelayMs; the array index is from 0 in the code.
getHiddenRefreshDelayMs(hiddenAttempt) ==
  LET normalizedIndex == Max(0, Min(hiddenAttempt, Len(RemoteRefreshHiddenBackoffMs) - 1))
  IN RemoteRefreshHiddenBackoffMs[normalizedIndex + 1]

\* The store once #init has run, before #startRefreshScheduler.  `waiting`
\* counts the refreshFromRemote callers that schedule the next refresh when
\* it settles.  `streak` counts the schedulings made since the tab was last
\* visible and `shown` tells that it became visible since the last one; of
\* the last scheduling, `scheduledHidden` tells that the tab was hidden,
\* `index` is its place in the streak and `first` tells that it was the first
\* after the tab became visible.
NewRefresh(hidden) ==
  [hidden |-> hidden, started |-> FALSE,
   hiddenAttempt |-> 0, lastDelayMs |-> RemoteRefreshVisibleIntervalMs, timer |-> FALSE,
   refreshInFlight |-> FALSE, waiting |-> 0,
   streak |-> 0, shown |-> FALSE, scheduledHidden |-> FALSE, index |-> 0, first |-> FALSE]

\* #scheduleNextRefresh
scheduleNextRefresh(r) ==
  LET delayMs == IF r.hidden THEN getHiddenRefreshDelayMs(r.hiddenAttempt)
                 ELSE RemoteRefreshVisibleIntervalMs
  IN [r EXCEPT !.hiddenAttempt = IF r.hidden
                                 THEN Min(@ + 1, Len(RemoteRefreshHiddenBackoffMs) - 1)
                                 ELSE 0,
               !.lastDelayMs = delayMs,
               !.timer = TRUE,
               !.streak = IF r.hidden THEN @ + 1 ELSE 0,
               !.scheduledHidden = r.hidden,
               !.index = IF r.hidden THEN r.streak + 1 ELSE 0,
               !.first = r.shown,
               !.shown = FALSE]

RECURSIVE Times(_, _, _)
Times(Op(_), r, n) == IF n = 0 THEN r ELSE Times(Op, Op(r), n - 1)

\* refreshFromRemote: joins the refresh in flight or starts one.
refreshFromRemote(r, schedules) ==
  [r EXCEPT !.refreshInFlight = TRUE,
            !.waiting = IF schedules THEN @ + 1 ELSE @]

\* #startRefreshScheduler
StartRefreshScheduler ==
  /\ ~refresh.started
  /\ refresh' = scheduleNextRefresh([refresh EXCEPT !.started = TRUE])
  /\ UNCHANGED exceptRefresh

\* document.hidden changes; #handleVisibilityChange runs once the scheduler
\* has registered it.
VisibilityChange ==
  /\ refresh.waiting < MaxWaiting
  /\ LET r == [refresh EXCEPT !.hidden = ~@,
                              !.streak = IF refresh.hidden THEN 0 ELSE @,
                              !.shown = IF refresh.hidden THEN TRUE ELSE @]
     IN refresh' = IF ~refresh.started \/ r.hidden
                   THEN r
                   ELSE refreshFromRemote([r EXCEPT !.hiddenAttempt = 0], TRUE)
  /\ UNCHANGED exceptRefresh

\* The refresh timer fires.
RefreshTimerFire ==
  /\ refresh.timer
  /\ refresh.waiting < MaxWaiting
  /\ refresh' = refreshFromRemote([refresh EXCEPT !.timer = FALSE], TRUE)
  /\ UNCHANGED exceptRefresh

\* refreshFromRemote called by the store itself (token change).
RefreshOnTokenChange ==
  /\ ~refresh.refreshInFlight
  /\ refresh' = refreshFromRemote(refresh, FALSE)
  /\ UNCHANGED exceptRefresh

\* The refresh in flight settles, with success or failure: each caller's
\* finally handler schedules the next refresh.
RefreshSettle ==
  /\ refresh.refreshInFlight
  /\ refresh.streak + refresh.waiting <= MaxStreak
  /\ refresh' = Times(scheduleNextRefresh,
                      [refresh EXCEPT !.refreshInFlight = FALSE, !.waiting = 0],
                      refresh.waiting)
  /\ UNCHANGED exceptRefresh

(***************************************************************************)
(* Initial states.                                                         *)
(***************************************************************************)
ProjectOf(actorId) == IF actorId = "a1" THEN 1 ELSE 2

Deployed(actorId, description) ==
  [exists |-> TRUE, project |-> ProjectOf(actorId), desc |-> description,
   composeStatus |-> "done", dep |-> "done", domain |-> TRUE,
   sourceType |-> "raw", files |-> TRUE, deployedBare |-> FALSE]

Expired == T0 - IdleTtlMs - 400
Boundary == T0 - IdleTtlMs

InitCalls ==
  /\ now = T0
  /\ ticks = 0
  /\ faults = 0
  /\ externals = 0
  /\ actorCleanupLocks = {}
  /\ inFlightSessionLocks = [k \in Actors \X Chats |-> 0]
  /\ call = [i \in CallIds |-> NoCall]
  /\ pc = [i \in CallIds |-> "idle"]
  /\ sw = [i \in CallIds |-> NoSweep]
  /\ cr = [i \in CallIds |-> NoCr]
  /\ hb = [i \in CallIds |-> NoHb]
  /\ res = [i \in CallIds |-> NoRes]

\* The browser stores before anything was asked of them.
InitClient ==
  /\ queue = NewQueue
  /\ files = NewFiles
  /\ preview = NewPreview
  /\ refresh = NewRefresh(FALSE)
  /\ mapping = NewMapping(<<>>)
  /\ request = NewRequest(Undefined)
  /\ config = StableConfig
  /\ route = NewRoute
  /\ store = NewStore(initialState)

SweepInitCompose(c) ==
  IF c = 1 THEN {Deployed("a1", Meta("a1", "c1", Expired, IdleTtlSec)),
                 Deployed("a1", Meta("a1", "c1", Boundary, IdleTtlSec))}
  ELSE IF c = 2 THEN {Deployed("a2", Meta("a2", "c1", Expired, IdleTtlSec)),
                      Deployed("a1", Meta("a1", "c2", NaN, IdleTtlSec)),
                      Deployed("a1", [Meta("a1", "c2", Expired, IdleTtlSec) EXCEPT !.prefix = FALSE]),
                      Deployed("a1", [Meta("a1", "c2", Expired, IdleTtlSec) EXCEPT !.v = 2])}
  ELSE {NoCompose,
        Deployed("a1", Meta("a1", "c2", T0, IdleTtlSec)),
        Deployed("a1", Meta("a1", "c2", Expired, IdleTtlSec))}

InitSweep ==
  /\ InitCalls
  /\ InitClient
  /\ projects = <<"a1", "a2">>
  /\ composes \in {f \in [ComposeIds -> UNION {SweepInitCompose(c) : c \in ComposeIds}] :
                     \A c \in ComposeIds : f[c] \in SweepInitCompose(c)}

NextSweep ==
  \/ Tick /\ UNCHANGED clientVars
  \/ \E i \in CallIds, a \in Actors : InvokeSweep(i, a) /\ UNCHANGED clientVars
  \/ \E i \in CallIds : SweepList(i) /\ UNCHANGED clientVars
  \/ \E i \in CallIds : SweepDelete(i) /\ UNCHANGED clientVars

SpecSweep == InitSweep /\ [][NextSweep]_vars

InitHeartbeatCompose(c) ==
  IF c = 1 THEN {Deployed("a1", Meta("a1", "c1", T0 - 400, IdleTtlSec))}
  ELSE IF c = 2 THEN {NoCompose,
                      Deployed("a1", Meta("a1", "c2", Expired, IdleTtlSec)),
                      Deployed("a2", Meta("a2", "c1", T0, IdleTtlSec))}
  ELSE {NoCompose}

InitHeartbeat ==
  /\ InitCalls
  /\ InitClient
  /\ projects = <<"a1", "a2">>
  /\ composes \in {f \in [ComposeIds -> UNION {InitHeartbeatCompose(c) : c \in ComposeIds}] :
                     \A c \in ComposeIds : f[c] \in InitHeartbeatCompose(c)}

NextHeartbeat ==
  \/ Tick /\ UNCHANGED clientVars
  \/ \E i \in CallIds : \E token \in SignedTokens : InvokeHeartbeat(i, token) /\ UNCHANGED clientVars
  \/ \E i \in CallIds : HbGet(i) /\ UNCHANGED clientVars
  \/ \E i \in CallIds : HbOne(i) /\ UNCHANGED clientVars
  \/ \E i \in CallIds : HbUpdate(i) /\ UNCHANGED clientVars
  \/ \E i \in CallIds : SweepList(i) /\ UNCHANGED clientVars
  \/ \E i \in CallIds : SweepDelete(i) /\ UNCHANGED clientVars

SpecHeartbeat == InitHeartbeat /\ [][NextHeartbeat]_vars

ErrorCompose(actorId, description) ==
  [Deployed(actorId, description) EXCEPT !.composeStatus = "error", !.dep = "error"]

IdleCompose(actorId, description) ==
  [Deployed(actorId, description) EXCEPT !.composeStatus = "idle", !.dep = "none"]

InitCreateCompose(c) ==
  IF c = 1 THEN {NoCompose,
                 Deployed("a1", Meta("a1", "c1", T0 - 400, IdleTtlSec)),
                 Deployed("a1", Meta("a1", "c1", Expired, IdleTtlSec)),
                 IdleCompose("a1", Meta("a1", "c1", T0 - 400, IdleTtlSec))}
  ELSE IF c = 2 THEN {NoCompose,
                      Deployed("a1", Meta("a1", "c1", T0 - 800, IdleTtlSec)),
                      ErrorCompose("a1", Meta("a1", "c1", T0 - 800, IdleTtlSec))}
  ELSE {NoCompose}

InitCreate ==
  /\ InitCalls
  /\ InitClient
  /\ projects \in {<<"a1", "a2">>, <<"a2">>}
  /\ composes \in {f \in [ComposeIds -> UNION {InitCreateCompose(c) : c \in ComposeIds}] :
                     \A c \in ComposeIds : f[c] \in InitCreateCompose(c)}
  /\ projects = <<"a2">> => \A c \in ComposeIds : composes[c] = NoCompose

NextCreate ==
  \/ Tick /\ UNCHANGED clientVars
  \/ \E i \in CallIds, ch \in Chats : InvokeCreate(i, "a1", ch) /\ UNCHANGED clientVars
  \/ \E i \in CallIds : SweepList(i) /\ UNCHANGED clientVars
  \/ \E i \in CallIds : SweepDelete(i) /\ UNCHANGED clientVars
  \/ \E i \in CallIds : ProjectAll(i) /\ UNCHANGED clientVars
  \/ \E i \in CallIds : ProjectCreate(i) /\ UNCHANGED clientVars
  \/ \E i \in CallIds : ProjectOne(i) /\ UNCHANGED clientVars
  \/ \E i \in CallIds : Evaluate(i) /\ UNCHANGED clientVars
  \/ \E i \in CallIds : ReuseUpdate(i) /\ UNCHANGED clientVars
  \/ \E i \in CallIds : ReuseDomain(i) /\ UNCHANGED clientVars
  \/ \E i \in CallIds : ReuseDeploy(i) /\ UNCHANGED clientVars
  \/ \E i \in CallIds : StaleDelete(i) /\ UNCHANGED clientVars
  \/ \E i \in CallIds : ComposeCreate(i) /\ UNCHANGED clientVars
  \/ \E i \in CallIds : RecoverProject(i) /\ UNCHANGED clientVars
  \/ \E i \in CallIds : ComposeUpdate(i) /\ UNCHANGED clientVars
  \/ \E i \in CallIds : WriteFiles(i) /\ UNCHANGED clientVars
  \/ \E i \in CallIds : EnsureDomain(i) /\ UNCHANGED clientVars
  \/ \E i \in CallIds : Deployments(i) /\ UNCHANGED clientVars
  \/ \E i \in CallIds : Deploy(i) /\ UNCHANGED clientVars
  \/ \E c \in ComposeIds : DeployProgress(c) /\ UNCHANGED clientVars
  \/ \E ch \in Chats : ExternalCreate("a1", ch) /\ UNCHANGED clientVars

SpecCreate == InitCreate /\ [][NextCreate]_vars

(***************************************************************************)
(* Creates on a server configured with a canary percent of 100 and no      *)
(* canary server: no create gets as far as compose.create.                 *)
(***************************************************************************)
InitCanary ==
  /\ InitCalls
  /\ queue = NewQueue
  /\ files = NewFiles
  /\ preview = NewPreview
  /\ refresh = NewRefresh(FALSE)
  /\ mapping = NewMapping(<<>>)
  /\ request = NewRequest(Undefined)
  /\ config = CanaryWithoutServer
  /\ route = NewRoute
  /\ store = NewStore(initialState)
  /\ projects \in {<<"a1", "a2">>, <<"a2">>}
  /\ composes \in {f \in [ComposeIds -> UNION {InitCreateCompose(c) : c \in ComposeIds}] :
                     \A c \in ComposeIds : f[c] \in InitCreateCompose(c)}
  /\ projects = <<"a2">> => \A c \in ComposeIds : composes[c] = NoCompose

NextCanary ==
  \/ Tick /\ UNCHANGED clientVars
  \/ \E i \in CallIds, ch \in Chats : InvokeCreate(i, "a1", ch) /\ UNCHANGED clientVars
  \/ \E i \in CallIds : SweepList(i) /\ UNCHANGED clientVars
  \/ \E i \in CallIds : SweepDelete(i) /\ UNCHANGED clientVars
  \/ \E i \in CallIds : ProjectAll(i) /\ UNCHANGED clientVars
  \/ \E i \in CallIds : ProjectCreate(i) /\ UNCHANGED clientVars
  \/ \E i \in CallIds : ProjectOne(i) /\ UNCHANGED clientVars
  \/ \E i \in CallIds : Evaluate(i) /\ UNCHANGED clientVars
  \/ \E i \in CallIds : ReuseUpdate(i) /\ UNCHANGED clientVars
  \/ \E i \in CallIds : ReuseDomain(i) /\ UNCHANGED clientVars
  \/ \E i \in CallIds : ReuseDeploy(i) /\ UNCHANGED clientVars
  \/ \E i \in CallIds : StaleDelete(i) /\ UNCHANGED clientVars
  \/ \E c \in ComposeIds : DeployProgress(c) /\ UNCHANGED clientVars
  \/ \E ch \in Chats : ExternalCreate("a1", ch) /\ UNCHANGED clientVars

SpecCanary == InitCanary /\ [][NextCanary]_vars

InitTouchCompose(c) ==
  IF c = 1 THEN {Deployed("a1", Meta("a1", "c1", T0 - 400, IdleTtlSec)),
                 IdleCompose("a1", Meta("a1", "c1", T0 - 400, IdleTtlSec))}
  ELSE {NoCompose}

InitTouch ==
  /\ InitCalls
  /\ InitClient
  /\ projects = <<"a1", "a2">>
  /\ composes \in {f \in [ComposeIds -> UNION {InitTouchCompose(c) : c \in ComposeIds}] :
                     \A c \in ComposeIds : f[c] \in InitTouchCompose(c)}

\* Heartbeats and creates for one chat, against the same composes.
NextTouch ==
  \/ Tick /\ UNCHANGED clientVars
  \/ \E i \in CallIds : \E token \in SignedTokens : InvokeHeartbeat(i, token) /\ UNCHANGED clientVars
  \/ \E i \in CallIds : HbGet(i) /\ UNCHANGED clientVars
  \/ \E i \in CallIds : HbOne(i) /\ UNCHANGED clientVars
  \/ \E i \in CallIds : HbUpdate(i) /\ UNCHANGED clientVars
  \/ \E i \in CallIds : InvokeCreate(i, "a1", "c1") /\ UNCHANGED clientVars
  \/ \E i \in CallIds : SweepList(i) /\ UNCHANGED clientVars
  \/ \E i \in CallIds : SweepDelete(i) /\ UNCHANGED clientVars
  \/ \E i \in CallIds : ProjectAll(i) /\ UNCHANGED clientVars
  \/ \E i \in CallIds : ProjectOne(i) /\ UNCHANGED clientVars
  \/ \E i \in CallIds : Evaluate(i) /\ UNCHANGED clientVars
  \/ \E i \in CallIds : ReuseUpdate(i) /\ UNCHANGED clientVars
  \/ \E i \in CallIds : ReuseDomain(i) /\ UNCHANGED clientVars
  \/ \E i \in CallIds : ReuseDeploy(i) /\ UNCHANGED clientVars
  \/ \E i \in CallIds : StaleDelete(i) /\ UNCHANGED clientVars
  \/ \E i \in CallIds : ComposeCreate(i) /\ UNCHANGED clientVars
  \/ \E i \in CallIds : RecoverProject(i) /\ UNCHANGED clientVars
  \/ \E i \in CallIds : ComposeUpdate(i) /\ UNCHANGED clientVars
  \/ \E i \in CallIds : WriteFiles(i) /\ UNCHANGED clientVars
  \/ \E i \in CallIds : EnsureDomain(i) /\ UNCHANGED clientVars
  \/ \E i \in CallIds : Deployments(i) /\ UNCHANGED clientVars
  \/ \E i \in CallIds : Deploy(i) /\ UNCHANGED clientVars
  \/ \E c \in ComposeIds : DeployProgress(c) /\ UNCHANGED clientVars
  \/ ExternalCreate("a1", "c1") /\ UNCHANGED clientVars

SpecTouch == InitTouch /\ [][NextTouch]_vars

(***************************************************************************)
(* The write queue on its own: enqueues, timers, flushes and cancels for   *)
(* two files, with writes that succeed or fail.                            *)
(***************************************************************************)
InitServerIdle ==
  /\ InitCalls
  /\ projects = <<"a1", "a2">>
  /\ composes = [c \in ComposeIds |-> NoCompose]

InitQueue ==
  /\ InitServerIdle
  /\ InitClient

NextQueue ==
  \/ \E p \in FilePaths : Enqueue(p)
  \/ \E o \in StateIds : TimerFire(o)
  \/ \E o \in StateIds, ok \in BOOLEAN : WriteSettle(o, ok)
  \/ \E p \in FilePaths : Flush(p)
  \/ FlushAll
  \/ \E p \in FilePaths : Cancel(p)
  \/ CancelAll

SpecQueue == InitQueue /\ [][NextQueue]_vars

(***************************************************************************)
(* saveFile and deleteFile calls on two paths over the write queue, with    *)
(* writes and deletes that succeed or fail and a runtime token that         *)
(* changes or is lost.                                                      *)
(***************************************************************************)
InitSave ==
  /\ InitServerIdle
  /\ queue = NewQueue
  /\ \E remote \in {{}, {"f1"}} : files = [NewFiles EXCEPT !.mirror = NewMirror(remote)]
  /\ preview = NewPreview
  /\ refresh = NewRefresh(FALSE)
  /\ mapping = NewMapping(<<>>)
  /\ request = NewRequest(Undefined)
  /\ config = StableConfig
  /\ route = NewRoute
  /\ store = NewStore(initialState)

NextSave ==
  \/ \E s \in SaveIds, p \in FilePaths : SaveFile(s, p)
  \/ \E o \in StateIds : SaveTimerFire(o)
  \/ \E o \in StateIds, ok \in BOOLEAN : SaveWriteSettle(o, ok)
  \/ \E d \in DeleteIds, p \in FilePaths : DeleteFile(d, p)
  \/ \E d \in DeleteIds, ok \in BOOLEAN : DeleteSettle(d, ok)
  \/ TokenRotated
  \/ TokenLost
  \/ \E ok \in BOOLEAN : RefreshFromRemoteSettle(ok)

SpecSave == InitSave /\ [][NextSave]_vars

(***************************************************************************)
(* refreshFromRemote calls, forced or not, over the directory cache, with  *)
(* listings that succeed or fail.  The store starts with an empty cache or  *)
(* after a refresh that listed the root more than directoryCacheTtlMs ago   *)
(* and src less than that ago.                                              *)
(***************************************************************************)
WarmSrc == [expiresAt |-> ClockStep, entries |-> 0]

InitWalk ==
  /\ InitServerIdle
  /\ queue = NewQueue
  /\ \E entry \in {NoEntry, WarmSrc} :
        files = [NewFiles EXCEPT !.directoryCache[<<"t1", "src">>] = entry]
  /\ preview = NewPreview
  /\ refresh = NewRefresh(FALSE)
  /\ mapping = NewMapping(<<>>)
  /\ request = NewRequest(Undefined)
  /\ config = StableConfig
  /\ route = NewRoute
  /\ store = NewStore(initialState)

NextWalk ==
  \/ ClockTick
  \/ \E c \in WalkCallIds, force \in BOOLEAN : RefreshFromRemote(c, force)
  \/ \E r \in ListIds, ok \in BOOLEAN : WalkListSettle(r, ok)

SpecWalk == InitWalk /\ [][NextWalk]_vars

(***************************************************************************)
(* The directory cache on its own: listings of one directory under one     *)
(* token, mutations under that token and another, and token changes, with  *)
(* calls that succeed or fail.                                             *)
(***************************************************************************)
InitFiles ==
  /\ InitServerIdle
  /\ InitClient

NextFiles ==
  \/ ClockTick
  \/ \E i \in ListIds, p \in RuntimePaths, force \in BOOLEAN :
        ListDirectory(i, "t1", p, force)
  \/ \E r \in ListIds, ok \in BOOLEAN : ListSettle(r, ok)
  \/ \E m \in MutationIds, t \in RuntimeTokens : MutationStart(m, t)
  \/ \E m \in MutationIds, ok \in BOOLEAN : MutationSettle(m, ok)
  \/ TokenChange

SpecFiles == InitFiles /\ [][NextFiles]_vars

(***************************************************************************)
(* The preview projector on its own: the store projects whatever session   *)
(* state it is given, at whatever time.                                    *)
(***************************************************************************)
InitPreview ==
  /\ InitServerIdle
  /\ InitClient

NextPreview ==
  \/ PreviewTick
  \/ \E state \in SessionStates : SyncSessionState(state)

SpecPreview == InitPreview /\ [][NextPreview]_vars

(***************************************************************************)
(* The snapshots the preview store publishes: by #syncSessionState for     *)
(* whatever session state it is given, and by the catch handler of         *)
(* refreshAllPreviews.                                                     *)
(***************************************************************************)
PublishedStates ==
  {s \in SessionStates : /\ s.state \in {"ready", "error"}
                         /\ s.deploymentStatus \in {"queued", "done", "error"}
                         /\ s.sessionStatus \in {"ready", "error"}}

InitPublish ==
  /\ InitServerIdle
  /\ InitClient

NextPublish ==
  \/ PreviewTick
  \/ \E state \in PublishedStates : Publish(state)
  \/ \E state \in PublishedStates : RefreshAllPreviewsRejected(state)

SpecPublish == InitPublish /\ [][NextPublish]_vars

(***************************************************************************)
(* The refresh scheduler on its own, in a tab that starts visible or       *)
(* hidden.                                                                 *)
(***************************************************************************)
InitRefresh ==
  /\ InitServerIdle
  /\ queue = NewQueue
  /\ files = NewFiles
  /\ preview = NewPreview
  /\ refresh \in {NewRefresh(hidden) : hidden \in BOOLEAN}
  /\ mapping = NewMapping(<<>>)
  /\ request = NewRequest(Undefined)
  /\ config = StableConfig
  /\ route = NewRoute
  /\ store = NewStore(initialState)

NextRefresh ==
  \/ StartRefreshScheduler
  \/ VisibilityChange
  \/ RefreshTimerFire
  \/ RefreshOnTokenChange
  \/ RefreshSettle

SpecRefresh == InitRefresh /\ [][NextRefresh]_vars

(***************************************************************************)
(* The path mapper on its own: a call of toRuntimePath with any input.     *)
(***************************************************************************)
InitPath ==
  /\ InitServerIdle
  /\ queue = NewQueue
  /\ files = NewFiles
  /\ preview = NewPreview
  /\ refresh = NewRefresh(FALSE)
  /\ mapping \in {NewMapping(input) : input \in PathInputs}
  /\ request = NewRequest(Undefined)
  /\ config = StableConfig
  /\ route = NewRoute
  /\ store = NewStore(initialState)

NextPath == ToRuntimePath

SpecPath == InitPath /\ [][NextPath]_vars

(***************************************************************************)
(* The platform client on its own: one request, for every maxRetries       *)
(* option and every outcome of every attempt.                              *)
(***************************************************************************)
InitRequest ==
  /\ InitServerIdle
  /\ queue = NewQueue
  /\ files = NewFiles
  /\ preview = NewPreview
  /\ refresh = NewRefresh(FALSE)
  /\ mapping = NewMapping(<<>>)
  /\ request \in {NewRequest(option) : option \in RetryOptions}
  /\ config = StableConfig
  /\ route = NewRoute
  /\ store = NewStore(initialState)

NextRequest ==
  \/ RequestStart
  \/ \E outcome \in FetchOutcomes : FetchSettle(outcome)
  \/ SleepDone

SpecRequest == InitRequest /\ [][NextRequest]_vars

(***************************************************************************)
(* The token-scoped routes on their own: requests with any token, any      *)
(* supplied identifiers and any path, over a platform whose calls succeed  *)
(* or fail.                                                                *)
(***************************************************************************)
InitRoute ==
  /\ InitServerIdle
  /\ queue = NewQueue
  /\ files = NewFiles
  /\ preview = NewPreview
  /\ refresh = NewRefresh(FALSE)
  /\ mapping = NewMapping(<<>>)
  /\ request = NewRequest(Undefined)
  /\ config = StableConfig
  /\ route = NewRoute
  /\ store = NewStore(initialState)

NextRoute ==
  \/ \E token \in RuntimeTokenClaims, supplied \in Supplied, rawPath \in RoutePaths :
        RouteWrite(token, supplied, rawPath)
  \/ \E token \in RuntimeTokenClaims, supplied \in Supplied : RouteDelete(token, supplied)
  \/ \E token \in RuntimeTokenClaims, supplied \in Supplied : RouteHeartbeat(token, supplied)
  \/ \E ok \in BOOLEAN : RouteSettle(ok)
  \/ \E ok \in BOOLEAN, expired \in RouteListings : RouteListSettle(ok, expired)
  \/ \E ok \in BOOLEAN : RouteSweepDeleteSettle(ok)
  \/ RouteNext

SpecRoute == InitRoute /\ [][NextRoute]_vars

(***************************************************************************)
(* The session store on its own: heartbeats from any state the store can   *)
(* be in, in a build with or without the dokploy runtime, with responses   *)
(* that carry a token or none.                                             *)
(***************************************************************************)
InitStore ==
  /\ InitServerIdle
  /\ queue = NewQueue
  /\ files = NewFiles
  /\ preview = NewPreview
  /\ refresh = NewRefresh(FALSE)
  /\ mapping = NewMapping(<<>>)
  /\ request = NewRequest(Undefined)
  /\ config = StableConfig
  /\ route = NewRoute
  /\ store \in {NewStore(state) : state \in StoreStates}
               \cup {[NewStore([initialState EXCEPT !.provider = "webcontainer"])
                        EXCEPT !.isDokployRuntime = FALSE]}

NextStore ==
  \/ \E h \in HeartbeatIds : Heartbeat(h)
  \/ \E h \in HeartbeatIds, ok \in BOOLEAN, result \in HeartbeatResponses :
        HeartbeatSettle(h, ok, result)

SpecStore == InitStore /\ [][NextStore]_vars

(***************************************************************************)
(* The session store with all its calls: ensureSession for two chats,      *)
(* refreshSession, heartbeat and teardownSession, overlapping in any way,  *)
(* from a fresh store or one that holds the session of chat1.              *)
(***************************************************************************)
SessionHeartbeatResponses ==
  {result \in HeartbeatResponses :
     result.expiresAt = T0 + IdleTtlMs /\ result.status = "ready"}

InitSession ==
  /\ InitServerIdle
  /\ queue = NewQueue
  /\ files = NewFiles
  /\ preview = NewPreview
  /\ refresh = NewRefresh(FALSE)
  /\ mapping = NewMapping(<<>>)
  /\ request = NewRequest(Undefined)
  /\ config = StableConfig
  /\ route = NewRoute
  /\ store \in {NewStore(initialState), NewStore(CreatedState("t1", T0, "deploying"))}

NextSession ==
  \/ \E k \in EnsureIds, chatId \in StoreChats, force \in BOOLEAN :
        EnsureSession(k, chatId, force)
  \/ \E k \in EnsureIds : EnsureDeleteSettle(k)
  \/ \E k \in EnsureIds, ok \in BOOLEAN : CreateSettle(k, ok)
  \/ \E k \in EnsureIds : EnsureRestart(k)
  \/ \E r \in RefreshIds : RefreshSession(r)
  \/ \E r \in RefreshIds, result \in GetSessionResponses : GetSessionSettle(r, result)
  \/ \E r \in RefreshIds, status \in GetSessionErrors : GetSessionFail(r, status)
  \/ \E h \in HeartbeatIds : Heartbeat(h)
  \/ \E h \in HeartbeatIds, ok \in BOOLEAN, result \in SessionHeartbeatResponses :
        HeartbeatSettle(h, ok, result)
  \/ \E d \in TeardownIds : TeardownSession(d)
  \/ \E d \in TeardownIds : TeardownSettle(d)

SpecSession == InitSession /\ [][NextSession]_vars

(***************************************************************************)
(* Claims about the idle sweeper.                                          *)
(***************************************************************************)
Sweeping(i) == pc[i] \in {"sweepList", "sweepDelete"}

SweepReturned(i) == sw[i].ran /\ ~Sweeping(i) /\ ~sw[i].threw

IssuedIds(i) == {d.composeId : d \in sw[i].issued}

\* C6: a sweep for actor A issues compose.delete only for composes of the
\* listing whose metadata parses, whose actorId is A and whose lastSeenAt +
\* idleTtlSec * 1000 is before the time of the check, and once it has returned
\* it has issued one for every compose of the listing that was expired so.
C6_SweepDeletesExactlyExpired ==
  \A i \in CallIds :
    /\ \A d \in sw[i].issued :
         LET m == parseRuntimeMetadata(d.description)
         IN /\ m # NoDesc
            /\ m.actorId = call[i].actorId
            /\ m.lastSeenAt # NaN
            /\ m.lastSeenAt + m.idleTtlSec * MsPerSec < d.at
    /\ SweepReturned(i) =>
         \A k \in 1..Len(sw[i].snap) :
           LET m == parseRuntimeMetadata(sw[i].snap[k].description)
           IN (/\ m # NoDesc
               /\ m.actorId = call[i].actorId
               /\ m.lastSeenAt # NaN
               /\ m.lastSeenAt + m.idleTtlSec * MsPerSec < sw[i].listedAt)
              => sw[i].snap[k].composeId \in IssuedIds(i)

\* A sweep has returned that deleted one compose of its listing and left another.
C6_Witness ==
  \E i \in CallIds :
    /\ SweepReturned(i)
    /\ sw[i].issued # {}
    /\ Len(sw[i].snap) > Cardinality(sw[i].issued)

C7_State ==
  /\ \A i \in CallIds :
       sw[i].skipped => /\ sw[i].calls = 0
                        /\ sw[i].issued = {}
                        /\ ~Sweeping(i)
                        /\ (call[i].kind = "sweep" => pc[i] = "done")
  /\ \A i, j \in CallIds :
       (i # j /\ Sweeping(i) /\ Sweeping(j)) => call[i].actorId # call[j].actorId

C7_Step ==
  \A i \in CallIds :
    (sw'[i].skipped /\ ~sw[i].skipped) =>
      \E j \in CallIds \ {i} : Sweeping(j) /\ call[j].actorId = call'[i].actorId

\* C7: a sweep invoked while a sweep for the same actor runs returns at once
\* having issued no platform call, so that at most one sweep runs per actor;
\* a sweep is skipped only then, so sweeps for other actors are not held up.
C7_SweepTryAndSkip == []C7_State /\ [][C7_Step]_vars

\* A sweep was skipped while another sweep for the same actor is running.
C7_Witness ==
  \E i, j \in CallIds :
    /\ i # j
    /\ sw[i].skipped
    /\ Sweeping(j)
    /\ call[i].actorId = call[j].actorId

(***************************************************************************)
(* Claims about heartbeat.                                                 *)
(***************************************************************************)
HeartbeatReturned(i) == call[i].kind = "heartbeat" /\ res[i].status = "fulfilled"

\* C4 as stated: the exp of the token a heartbeat returns is the time ti of
\* its lastSeenAt plus idleTtlSec * 60, the horizon of the lastSeenAt-based
\* expiry it wrote (read either to the letter, or as the same horizon).
C4_ExpEqualsLastSeenHorizon ==
  \A i \in CallIds :
    HeartbeatReturned(i) =>
      \/ res[i].token.exp = (hb[i].stamp \div MsPerSec) + IdleTtlSec * SecPerMin
      \/ res[i].token.exp * MsPerSec = getExpiresAt(hb[i].next)

\* C4 amended: a heartbeat that reads the clock at ti writes lastSeenAt = ti
\* and returns expiresAt = ti + idleTtlSec * 1000 ms; its token is signed
\* later, at si >= ti, with iat = floor(si / 1000) and exp = iat + idleTtlSec
\* seconds, where idleTtlSec = sessionIdleMinutes * 60.
C4_SlidingTtl ==
  \A i \in CallIds :
    HeartbeatReturned(i) =>
      /\ hb[i].next.lastSeenAt = hb[i].stamp
      /\ res[i].expiresAt = hb[i].stamp + IdleTtlSec * MsPerSec
      /\ res[i].token.exp = res[i].token.iat + IdleTtlSec
      /\ res[i].token.iat >= hb[i].stamp \div MsPerSec
      /\ res[i].token.iat <= now \div MsPerSec
      /\ res[i].token.exp * MsPerSec > res[i].expiresAt - MsPerSec

\* A heartbeat has returned a token signed in a later second than its lastSeenAt.
C4_Witness ==
  \E i \in CallIds :
    /\ HeartbeatReturned(i)
    /\ res[i].token.iat > hb[i].stamp \div MsPerSec

\* C8: when the sweep a heartbeat invokes fails, the heartbeat still returns
\* the new token, the status and expiresAt.
C8_HeartbeatSurvivesSweepFailure ==
  \A i \in CallIds :
    (call[i].kind = "heartbeat" /\ sw[i].threw) =>
      /\ res[i].status = "fulfilled"
      /\ res[i].token # NoToken

(***************************************************************************)
(* Claims about createRuntimeSession.                                      *)
(***************************************************************************)
IsCreate(i) == call[i].kind = "create"

Task(i) == IsCreate(i) /\ cr[i].owner = i

Returned(i) == pc[i] = "done" /\ res[i].status = "fulfilled"

\* C1: two create calls with the same actor and chat that are in flight
\* together in one process make at most one compose.create call between them,
\* and once both have settled they have the same outcome and the same token.
C1_SingleFlight ==
  \A i \in CallIds : \A j \in cr[i].overlaps :
    /\ cr[i].nComposeCreate + cr[j].nComposeCreate <= 1
    /\ (pc[i] = "done" /\ pc[j] = "done") =>
         /\ res[i].status = res[j].status
         /\ res[i].token = res[j].token

\* Two overlapping calls have returned the token of a compose that one
\* compose.create made.
C1_Witness ==
  \E i \in CallIds : \E j \in cr[i].overlaps :
    /\ Returned(i) /\ Returned(j)
    /\ res[i].token # NoToken
    /\ res[i].token = res[j].token
    /\ cr[j].nComposeCreate = 1

\* C2 (as claimed): a create called while a reusable compose exists for its
\* actor and chat never calls compose.create, and issues no compose.delete
\* for the compose it reuses.
C2_ReusableMeansNoCreate ==
  \A i \in CallIds :
    (Task(i) /\ cr[i].reusableAtCall # {}) =>
      /\ cr[i].nComposeCreate = 0
      /\ cr[i].reused # 0 => cr[i].reused \notin cr[i].deleteIssued

\* C2 (amended): a create whose first reuse search returns a candidate never
\* calls compose.create and its stale-compose cleanup never issues
\* compose.delete for the compose it reuses; a create that has called
\* compose.create found no candidate in its first search.
C2_CandidateMeansNoCreate ==
  \A i \in CallIds :
    /\ (cr[i].reused # 0 /\ ~cr[i].conflict) =>
         /\ cr[i].nComposeCreate = 0
         /\ cr[i].reused \notin cr[i].deleteIssued
    /\ (cr[i].nComposeCreate > 0 /\ cr[i].scan = 1) => cr[i].cand = NoCand

\* A create has returned the compose it reused after deleting a stale duplicate.
C2_Witness ==
  \E i \in CallIds :
    /\ Returned(i)
    /\ cr[i].reused # 0
    /\ ~cr[i].conflict
    /\ res[i].composeId = cr[i].reused
    /\ cr[i].deleteIssued # {}
    /\ \E c \in cr[i].deleteIssued : ~composes[c].exists

\* C3 (as claimed): when a create call returns, at most one compose of its
\* actor and chat is reusable.
C3_AtMostOneReusable ==
  [][\A i \in CallIds :
       (pc[i] # "done" /\ pc'[i] = "done" /\ res'[i].status = "fulfilled" /\ IsCreate(i))
         => Cardinality((ReusableIds(call[i].actorId, call[i].chatId))') <= 1]_vars

\* C3 (amended): after a create call has returned, every reusable compose of
\* its actor and chat other than the returned one is a compose that the
\* call's reuse searches did not list, or one whose best-effort
\* compose.delete, issued by the call, failed.
C3_OthersDeletedBestEffort ==
  \A i \in CallIds :
    (Task(i) /\ Returned(i)) =>
      \A c \in ReusableIds(call[i].actorId, call[i].chatId) :
        \/ c = res[i].composeId
        \/ c \notin cr[i].seen
        \/ c \in cr[i].deleteIssued /\ c \in cr[i].deleteFailed

\* A create has returned after its search listed two composes, and the other
\* one is gone.
C3_Witness ==
  \E i \in CallIds :
    /\ Task(i) /\ Returned(i)
    /\ Cardinality(cr[i].seen) > 1
    /\ ReusableIds(call[i].actorId, call[i].chatId) = {res[i].composeId}
    /\ cr[i].deleteFailed = {}

\* C9: a create is rejected only when a call it cannot go on without has
\* failed; when its sweep threw or a stale-compose delete failed and no such
\* call failed, it returns the session of the compose it reused or created.
C9_CleanupNeverFatal ==
  \A i \in CallIds :
    Task(i) =>
      /\ res[i].status = "rejected" => cr[i].fatal # ""
      /\ (pc[i] = "done" /\ cr[i].fatal = "" /\ (sw[i].threw \/ cr[i].deleteFailed # {})) =>
           /\ res[i].status = "fulfilled"
           /\ res[i].token # NoToken
           /\ res[i].composeId \in {cr[i].reused, cr[i].composeId} \ {0}

\* A create whose sweep threw has returned a session, and so has one whose
\* stale-compose delete failed.
C9_Witness ==
  \E i \in CallIds :
    /\ Task(i) /\ Returned(i)
    /\ sw[i].threw \/ cr[i].deleteFailed # {}
    /\ res[i].token # NoToken

\* C10 (as claimed): after compose.create has failed with CONFLICT the call
\* fetches the project again once, runs the reuse search a second time, never
\* calls compose.create again, and ends with the session of the compose the
\* second search found or with the CONFLICT error.
C10_RecoverOrReraise ==
  \A i \in CallIds :
    cr[i].conflict =>
      /\ cr[i].nRefetch = 1
      /\ cr[i].nComposeCreate = 1
      /\ pc[i] = "done" =>
           /\ cr[i].nScan = 2
           /\ \/ /\ res[i].status = "fulfilled"
                 /\ cr[i].cand # NoCand
                 /\ res[i].composeId = cr[i].cand.composeId
              \/ /\ res[i].status = "rejected"
                 /\ res[i].code = "CONFLICT"

\* C10 (amended): as claimed, except that the call may also end with the
\* error of a platform call of the recovery that failed (project.one, or the
\* compose.update, domain or deploy call for the compose found); the second
\* search has then run at most once.
C10_RecoverOnce ==
  \A i \in CallIds :
    cr[i].conflict =>
      /\ cr[i].nRefetch = 1
      /\ cr[i].nComposeCreate = 1
      /\ cr[i].nScan <= 2
      /\ pc[i] = "done" =>
           \/ /\ res[i].status = "fulfilled"
              /\ cr[i].nScan = 2
              /\ cr[i].cand # NoCand
              /\ res[i].composeId = cr[i].cand.composeId
           \/ /\ res[i].status = "rejected"
              /\ res[i].code = "CONFLICT"
              /\ cr[i].nScan = 2
              /\ cr[i].cand = NoCand
           \/ /\ res[i].status = "rejected"
              /\ res[i].code = "PLATFORM"

\* A create has recovered from CONFLICT with the compose of another process,
\* and another has raised CONFLICT again.
C10_Witness ==
  \E i \in CallIds :
    /\ cr[i].conflict
    /\ Returned(i)
    /\ cr[i].nScan = 2
    /\ res[i].composeId = cr[i].cand.composeId

(***************************************************************************)
(* Claims about the writes of lastSeenAt.                                  *)
(***************************************************************************)
\* The compose.update of heartbeat i has been applied in this step.
HeartbeatApplied(i) == ~hb[i].applied /\ hb'[i].applied

\* The compose.update of the reuse write-back of create i has been applied
\* in this step.
WriteBackApplied(i) == pc[i] = "reuseUpdate" /\ pc'[i] = "reuseDomain"

\* The compose.update that follows compose.create in create i has been
\* applied in this step.
CreateUpdateApplied(i) == pc[i] = "composeUpdate" /\ pc'[i] = "writeFiles"

LastSeenOf(c) == composes[c].desc.lastSeenAt

\* C5 (as claimed): the lastSeenAt stored in a compose never decreases.
C5_LastSeenMonotone ==
  [][\A c \in ComposeIds :
       (composes[c].exists /\ composes'[c].exists /\ LastSeenOf(c) # NaN)
         => LastSeenOf(c)' >= LastSeenOf(c)]_vars

\* C5 (amended): a heartbeat, a reuse write-back or the compose.update of a
\* new compose that is applied stores the time at which it was issued, which
\* is not after the time of the write, and the write applied last wins: the
\* stored lastSeenAt decreases only when the write applied is one issued
\* before the time stored.
C5_LastWriterWins ==
  [][/\ \A i \in CallIds :
          HeartbeatApplied(i) =>
            /\ LastSeenOf(call[i].token.composeId)' = hb[i].stamp
            /\ hb[i].stamp <= now
     /\ \A i \in CallIds :
          WriteBackApplied(i) =>
            /\ LastSeenOf(cr[i].cand.composeId)' = cr[i].metadata.lastSeenAt
            /\ cr[i].metadata.lastSeenAt <= now
     /\ \A i \in CallIds :
          CreateUpdateApplied(i) =>
            /\ LastSeenOf(cr[i].composeId)' = cr[i].metadata.lastSeenAt
            /\ cr[i].metadata.lastSeenAt <= now
     /\ \A c \in ComposeIds :
          (composes[c].exists /\ composes'[c].exists /\ LastSeenOf(c) # NaN
             /\ LastSeenOf(c)' < LastSeenOf(c))
            => \E i \in CallIds :
                 \/ /\ HeartbeatApplied(i)
                    /\ call[i].token.composeId = c
                    /\ hb[i].stamp < LastSeenOf(c)
                 \/ /\ WriteBackApplied(i)
                    /\ cr[i].cand.composeId = c
                    /\ cr[i].metadata.lastSeenAt < LastSeenOf(c)
                 \/ /\ CreateUpdateApplied(i)
                    /\ cr[i].composeId = c
                    /\ cr[i].metadata.lastSeenAt < LastSeenOf(c)]_vars

\* A heartbeat and a reuse write-back, issued at different times, have both
\* been applied to the same compose.
C5_Witness ==
  \E i, j \in CallIds :
    /\ hb[i].applied
    /\ IsCreate(j)
    /\ cr[j].reused = call[i].token.composeId
    /\ pc[j] \in {"reuseDomain", "reuseDeploy", "reuseStaleDelete", "done"}
    /\ cr[j].fatal = ""
    /\ hb[i].stamp # cr[j].metadata.lastSeenAt
    /\ composes[cr[j].reused].exists
    /\ LastSeenOf(cr[j].reused) \in {hb[i].stamp, cr[j].metadata.lastSeenAt}

(***************************************************************************)
(* Claims about the release of the single-flight lock.                     *)
(***************************************************************************)
\* The task of create call i has been started and has not settled.
TaskRunning(i) == Task(i) /\ pc[i] \notin {"idle", "done"}

\* C11: the in-flight map holds an entry for a key only while the task that
\* stored it runs: once that task has settled, fulfilled or rejected, the key
\* has no entry, and a create called for a key with no running task starts a
\* new task of its own.
C11_State ==
  \A a \in Actors, ch \in Chats :
    LET i == inFlightSessionLocks[LockKey(a, ch)]
    IN i # 0 => /\ TaskRunning(i)
                /\ call[i].actorId = a
                /\ call[i].chatId = ch

C11_Step ==
  \A j \in CallIds :
    (pc[j] = "idle" /\ pc'[j] # "idle" /\ call'[j].kind = "create"
       /\ ~\E i \in CallIds : /\ TaskRunning(i)
                               /\ call[i].actorId = call'[j].actorId
                               /\ call[i].chatId = call'[j].chatId)
      => (cr'[j].owner = j /\ pc'[j] # "joined")

C11_LockReleasedOnSettle == []C11_State /\ [][C11_Step]_vars

\* A task was rejected, its key has no entry, and a later create for the key
\* runs a task of its own.
C11_Witness ==
  \E i, j \in CallIds :
    /\ Task(i) /\ pc[i] = "done" /\ res[i].status = "rejected"
    /\ i # j /\ Task(j)
    /\ call[j].actorId = call[i].actorId /\ call[j].chatId = call[i].chatId
    /\ i \notin cr[j].overlaps
    /\ pc[j] = "done" /\ inFlightSessionLocks[LockKey(call[i].actorId, call[i].chatId)] = 0

(***************************************************************************)
(* Claims about the write queue.                                           *)
(***************************************************************************)
\* The jobs passed to the write callback for a path, oldest first.
Writes(p) == queue.writeLog[p]

\* The statuses a generation's promise was resolved or rejected with.
Statuses(o, g) == {queue.settled[o][g][k] : k \in 1..Len(queue.settled[o][g])}

\* C12: per file only the newest generation is written: a job is passed to
\* the write callback only if no later generation has been enqueued for the
\* file by then, and no generation whose promise resolved canceled is written.
C12_OnlyNewestWritten ==
  \A p \in FilePaths : \A k \in 1..Len(Writes(p)) :
     /\ Writes(p)[k].newest
     /\ "canceled" \notin Statuses(Writes(p)[k].state, Writes(p)[k].generation)

\* C13: per file, writes are serialized: whatever enqueue, flush and cancel
\* calls are made, at most one write for a file path is in flight at a time.
C13_WritesSerialized ==
  \A p \in FilePaths : Cardinality(WritingStates(queue, p)) <= 1

\* The generations enqueue has assigned for a path, oldest first.
Assigned(p) == queue.assigned[p]

\* C14: generations are monotonic per file: every enqueue for a path gets a
\* generation strictly greater than every generation assigned earlier for the
\* path, and every written generation is strictly greater than every
\* generation written earlier for the path.
C14_GenerationsMonotone ==
  \A p \in FilePaths :
     /\ \A j, k \in 1..Len(Assigned(p)) :
           j < k => Assigned(p)[j].generation < Assigned(p)[k].generation
     /\ \A j, k \in 1..Len(Writes(p)) :
           j < k => Writes(p)[j].generation < Writes(p)[k].generation

\* The generations enqueue has returned a promise for, with their state.
Returned15 == UNION {{<<Assigned(p)[k].state, Assigned(p)[k].generation>> :
                        k \in 1..Len(Assigned(p))} : p \in FilePaths}

\* Nothing of a state is left to run: no timer, no write, an empty chain.
Quiet(o) ==
  /\ ~queue.objs[o].timer
  /\ queue.objs[o].writing = 0
  /\ queue.objs[o].chain = <<>>

\* Every promise is settled at most once, with one of `statuses`, and is
\* settled once its state has nothing left to run.
SettlesOnceWith(statuses) ==
  \A o \in StateIds, g \in Generations :
     /\ Len(queue.settled[o][g]) <= 1
     /\ Statuses(o, g) \subseteq statuses
     /\ <<o, g>> \notin Returned15 => queue.settled[o][g] = <<>>
     /\ <<o, g>> \in Returned15 /\ Quiet(o) => Len(queue.settled[o][g]) = 1

\* C15 as stated: every generation returned by enqueue resolves exactly
\* once, with status written or canceled.
C15_ResolvesWrittenOrCanceled == SettlesOnceWith({"written", "canceled"})

\* C15 amended: every generation returned by enqueue settles exactly once:
\* it resolves written or canceled, or rejects with the error of its write.
C15_SettlesOnce == SettlesOnceWith({"written", "canceled", "rejected"})

C15_Witness ==
  \E o \in StateIds : \E g1, g2, g3 \in Generations :
     /\ Quiet(o)
     /\ queue.settled[o][g1] = <<"canceled">>
     /\ queue.settled[o][g2] = <<"written">>
     /\ queue.settled[o][g3] = <<"rejected">>

(***************************************************************************)
(* Claims about the directory cache.                                       *)
(***************************************************************************)
ListReturned(i) == files.lists[i].at = "done" /\ ~files.lists[i].failed

\* C16: a list call made after a write, mkdir or delete on its token has
\* completed never returns a listing that was requested before that mutation.
C16_FreshAfterMutation ==
  \A i \in ListIds :
     ListReturned(i) =>
        \A m \in files.lists[i].after : files.lists[i].entries \notin files.mutations[m].before

\* List call j repeats the non-forced list call i for the same key within
\* directoryCacheTtlMs of it, with no invalidation in between, and call i
\* issued the platform request.
Repeats(i, j) == i \in files.lists[j].repeats

\* No platform list request made for the key of call j before it has failed.
NoneFailedBefore(j) ==
  \A k \in ListIds : k < j /\ files.lists[k].key = files.lists[j].key => ~files.lists[k].failed

\* C17: within the TTL and without intervening writes, repeated non-forced
\* list calls for a key issue exactly one platform call: a call that repeats
\* one that issued the request issues none (as long as no request for the key
\* has failed: a failed request caches nothing and the next call retries).
C17_OnePlatformCall ==
  \A i, j \in ListIds : Repeats(i, j) /\ NoneFailedBefore(j) => ~files.lists[j].issued

(***************************************************************************)
(* Claims about the preview projector.                                     *)
(***************************************************************************)
\* The projections of the current session key have all seen queued.
QueuedRun == preview.run.sessionKey # "" /\ preview.run.queued

\* C18: with deploymentStatus queued at every projection of a session key,
\* shouldAutoRedeploy is emitted exactly once, at the projection that finds
\* 180 s elapsed (retryCount becomes 1); a projection 180 s or more after
\* that one outputs state error with the time-limit message, and none emits
\* shouldAutoRedeploy again.
C18_OneRedeployThenError ==
  QueuedRun =>
    LET run == preview.run
        n == Len(run.redeploys)
    IN /\ n <= 1
       /\ preview.shouldAutoRedeploy => n = 1 /\ run.redeploys[1] = run.at
       /\ run.at - run.since < QueuedTimeoutMs =>
             /\ n = 0
             /\ preview.memory.retryCount = 0
             /\ preview.status.message = "default"
       /\ run.at - run.since >= QueuedTimeoutMs =>
             /\ n = 1
             /\ preview.memory.retryCount = 1
             /\ preview.status.retryCount = 1
             /\ run.redeploys[1] - run.since >= QueuedTimeoutMs
       /\ n = 1 /\ run.at - run.redeploys[1] < QueuedTimeoutMs =>
             preview.status.message = "default"
       /\ n = 1 /\ run.at - run.redeploys[1] >= QueuedTimeoutMs =>
             /\ preview.status.state = "error"
             /\ preview.status.message = "timeLimit"
             /\ ~preview.shouldAutoRedeploy

C18_Witness ==
  /\ QueuedRun
  /\ Len(preview.run.redeploys) = 1
  /\ preview.run.at - preview.run.redeploys[1] >= QueuedTimeoutMs
  /\ preview.status.state = "error"
  /\ preview.status.message = "timeLimit"

(***************************************************************************)
(* Claims about the refresh scheduler.                                     *)
(***************************************************************************)
\* The hidden-tab delays of the claim, in seconds.
C19_Sequence == <<20, 40, 80, 160, 300>>

\* C19: while the tab stays hidden the delays of successive scheduled
\* refreshes are 20, 40, 80, 160, 300 s and 300 s from then on; a scheduling
\* made while the tab is visible, and the first one made after the tab became
\* visible, has the delay 20 s, and the hidden sequence starts again from its
\* first value.
C19_HiddenBackoff ==
  refresh.started =>
     /\ refresh.scheduledHidden =>
           refresh.lastDelayMs = C19_Sequence[Min(refresh.index, 5)] * MsPerSec
     /\ ~refresh.scheduledHidden => refresh.lastDelayMs = 20 * MsPerSec
     /\ refresh.first =>
           /\ refresh.lastDelayMs = 20 * MsPerSec
           /\ refresh.scheduledHidden => refresh.index = 1

C19_Witness ==
  /\ refresh.scheduledHidden
  /\ refresh.index = 6
  /\ refresh.lastDelayMs = 300 * MsPerSec

(***************************************************************************)
(* Claims about the path mapper.                                           *)
(***************************************************************************)
HasTraversalSegment(value) ==
  \E i \in 1..Len(split(value)) : split(value)[i] = <<".", ".">>

\* C20: for every input string S, toRuntimePath(S) either fails with
\* "Invalid runtime path" or returns a path with no ".." segment, no
\* backslash and no leading slash.
C20_PathSafety ==
  mapping.called =>
     \/ mapping.result.error = "Invalid runtime path"
     \/ /\ mapping.result.error = ""
        /\ ~HasTraversalSegment(mapping.result.value)
        /\ \A i \in 1..Len(mapping.result.value) : mapping.result.value[i] # "\\"
        /\ mapping.result.value = <<>> \/ mapping.result.value[1] # "/"

\* A call that returned a path, for an input under the work directory that
\* is written with backslashes and has slashes to strip after the prefix.
C20_Witness ==
  /\ mapping.called
  /\ mapping.result.error = ""
  /\ mapping.result.value # <<>>
  /\ startsWith(mapping.input, Backslashed(WorkDir) \o <<"\\", "\\">>)
  /\ \E i \in 1..Len(mapping.result.value) : mapping.result.value[i] = "."

\* Substrings, and what the inputs of the tests in path-mapper.spec.ts hold.
Contains(value, part) ==
  \E i \in 0..(Len(value) - Len(part)) : SubSeq(value, i + 1, i + Len(part)) = part

HexDigits == {"0", "2", "e", "a"}

HasEncodedTraversal(value) ==
  \E i \in 1..Len(split(normalize(value))) :
     split(normalize(value))[i] = <<"%", "2", "e", "%", "2", "e">>

HasEncodedNul(value) == Contains(value, <<"%", "0", "0">>)

HasMalformedEscape(value) ==
  \E i \in 1..Len(value) :
     /\ value[i] = "%"
     /\ ~(i + 2 <= Len(value) /\ value[i + 1] \in HexDigits /\ value[i + 2] \in HexDigits)

HasDrivePrefix(value) == startsWith(value, <<"C", ":">>)

\* C21: toRuntimePath rejects with "Invalid runtime path" every path that
\* contains a percent-encoded traversal segment (%2e%2e), an encoded NUL
\* (%00), a malformed percent escape (%zz) or a drive-letter prefix (C:), in
\* addition to literal ".." segments.
C21_RejectsEncodings ==
  (/\ mapping.called
   /\ \/ HasEncodedTraversal(mapping.input)
      \/ HasEncodedNul(mapping.input)
      \/ HasMalformedEscape(mapping.input)
      \/ HasDrivePrefix(mapping.input)
      \/ HasTraversalSegment(normalize(mapping.input)))
    => mapping.result.error = "Invalid runtime path"

(***************************************************************************)
(* Claims about the platform client.                                       *)
(***************************************************************************)
NotRetriedCodes ==
  {"CONFLICT", "BAD_REQUEST", "UNAUTHORIZED", "FORBIDDEN", "NOT_FOUND",
   "NOT_IMPLEMENTED", "PAYLOAD_TOO_LARGE"}

FailsNotRetried(outcome) ==
  outcome.kind = "trpcError" /\ outcome.code \in NotRetriedCodes

C23_BoundedAttempts ==
  /\ request.fetches <= request.maxRetries + 1
  /\ request.phase \in {"idle", "fetching"} \/ Len(request.outcomes) = request.fetches
  /\ request.phase = "fetching" => Len(request.outcomes) = request.fetches - 1
  /\ request.phase = "sleeping" => request.fetches < request.maxRetries + 1
  /\ request.phase = "returned" =>
        request.outcomes[Len(request.outcomes)].kind = "result"
  /\ request.phase = "thrown" =>
        /\ request.fetches >= 1
        /\ request.outcomes[Len(request.outcomes)].kind # "result"
        /\ request.error = normalizeError(request.outcomes[Len(request.outcomes)])

\* A call with the default maxRetries whose three attempts all timed out.
C23_Witness ==
  /\ request.maxRetries = DefaultMaxRetries
  /\ request.fetches = 3
  /\ request.phase = "thrown"
  /\ request.error = DokployClientError(504, "TIMEOUT")

(***************************************************************************)
(* Claims about the rollout.                                               *)
(***************************************************************************)
NoCanaryError == RuntimeSessionOrchestratorError(503, "NO_CANARY_DEPLOY_SERVER")

CreateDone(i) == call[i].kind = "create" /\ pc[i] = "done"

C26_ReturnedNeverDeleted ==
  \A i \in CallIds :
     (CreateDone(i) /\ cr[i].owner = i /\ res[i].status = "fulfilled")
        => res[i].composeId \notin cr[i].deleteIssued

(***************************************************************************)
(* Claims about what create deploys and returns.                           *)
(***************************************************************************)
\* C28: every compose on which create calls compose.deploy, or which create
\* returns in a session, has earlier had compose.update (sourceType raw,
\* composePath docker-compose.yml) and the write of every template file
\* completed successfully, including a compose reused after an earlier create
\* failed partway.
C28_DeployedAndReturnedPrepared ==
  /\ \A c \in ComposeIds : ~composes[c].deployedBare
  /\ \A i \in CallIds :
        (CreateDone(i) /\ res[i].status = "fulfilled" /\ composes[res[i].composeId].exists)
           => Prepared(composes[res[i].composeId])

(***************************************************************************)
(* Claims about the token-scoped routes.                                   *)
(***************************************************************************)
\* The calls a sweep run by a heartbeat makes: its listing and its deletes.
SweepCall(k) == route.operation = "heartbeat" /\ k > Len(HeartbeatCalls)

SweepDeletes(i, c) ==
  /\ pc[i] = "sweepDelete"
  /\ Head(sw[i].todo).composeId = c
  /\ composes[c].exists
  /\ ~composes'[c].exists

\* Call j is a heartbeat whose compose.update has completed, and the
\* description of c is the one it wrote.
HeartbeatWrote(j, c) ==
  /\ hb[j].applied
  /\ call[j].token.composeId = c
  /\ composes[c].desc = formatRuntimeMetadata(hb[j].next)

\* C27: a compose whose metadata a completed heartbeat update wrote with
\* lastSeenAt = t is not deleted by a sweep before t + idleTtlSec * 1000,
\* however the sweep's listing and deletes interleave with the heartbeat.
C27_HeartbeatOutlivesSweep ==
  [][\A i, j \in CallIds : \A c \in ComposeIds :
       SweepDeletes(i, c) /\ HeartbeatWrote(j, c) => now >= getExpiresAt(hb[j].next)]_vars

(***************************************************************************)
(* Claims about the actor project.                                         *)
(***************************************************************************)
\* The projects named for the actor.
ActorProjects(actorId) == {k \in 1..Len(projects) : projects[k] = actorId}

\* C29: creates of one actor for different chats, however they overlap,
\* issue at most one project.create between them while no platform call
\* fails, and the platform never holds two projects named for the actor.
C29_OneProjectCreate ==
  faults = 0 =>
    /\ \A i, j \in CallIds :
         /\ i # j
         /\ call[i].kind = "create" /\ call[j].kind = "create"
         /\ call[i].actorId = call[j].actorId
         /\ call[i].chatId # call[j].chatId
         => cr[i].nProjectCreate + cr[j].nProjectCreate <= 1
    /\ \A actorId \in Actors : Cardinality(ActorProjects(actorId)) <= 1

(***************************************************************************)
(* Claims about the session store.                                         *)
(***************************************************************************)
\* This step is heartbeat call h resolving with a response.
HeartbeatResolves(h) ==
  store.heartbeats[h].pc = "await" /\ store'.heartbeats[h].pc = "resolved"

\* C30: when a heartbeat() resolves with a response that carries a
\* runtimeToken, the store's runtimeToken is that token, its session's
\* expiresAt is the response's expiresAt and its sessionStatus is the
\* response's status.
C30_HeartbeatAbsorbsToken ==
  [][\A h \in HeartbeatIds :
       LET result == store'.heartbeats[h].result[1]
       IN HeartbeatResolves(h) /\ result.runtimeToken # Undefined
          => /\ store'.sessionState.runtimeToken = result.runtimeToken
             /\ store'.sessionState.session # Undefined
             /\ store'.sessionState.session[1].expiresAt = result.expiresAt
             /\ store'.sessionState.sessionStatus = Defined(result.status)]_vars

\* C31: an ensureSession for chat B that is called while the createSession
\* of another chat A is in flight resolves to a session created for chat B,
\* never to the session of chat A.
C31_SwitchedChatGetsOwnSession ==
  \A k \in EnsureIds :
    /\ store.ensures[k].duringCreateFor \notin {"", store.ensures[k].chatId}
    /\ store.ensures[k].pc = "resolved"
    /\ store.ensures[k].result # Undefined
    => store.ensures[k].result[1].composeId = store.ensures[k].chatId

\* C32: ensureSession calls for one chat that overlap share one create: no
\* two createSession requests for the same chat are in flight at once, also
\* when the calls replace a previous session (chat switch or force).
C32_OneCreateInFlight ==
  \A j, k \in EnsureIds :
    /\ j # k
    /\ store.ensures[j].pc = "creating"
    /\ store.ensures[k].pc = "creating"
    => store.ensures[j].chatId # store.ensures[k].chatId

\* C33: from a reset of the store (teardownSession resolving, or a 401 on
\* refreshSession) until a createSession answers, the store holds no runtime
\* token and no session, whatever refreshSession or heartbeat response
\* arrives in between.
C33_ResetStaysReset ==
  store.torn =>
    /\ store.sessionState.runtimeToken = Undefined
    /\ store.sessionState.session = Undefined

(***************************************************************************)
(* Claims about flush and the files store's use of the write queue.        *)
(***************************************************************************)
\* This step is a flush of the state o resolving: the #flushState call that
\* waited for the chain returns, or a flush that finds nothing to wait for
\* returns at once.
FlushResolves(o) ==
  /\ queue.objs[o].filePath # ""
  /\ queue'.flushes[o] = NoFlush
  /\ \/ queue.flushes[o] # NoFlush
     \/ /\ queue.states[queue.objs[o].filePath] = o
        /\ queue' = flushState(queue, o)

\* C37: when flush(p) resolves, no debounce timer and no undispatched job is
\* left for p and every write enqueued for p so far has settled (written,
\* canceled or rejected).
C37_FlushLeavesNothing ==
  [][\A o \in StateIds :
       FlushResolves(o) =>
         LET p == queue.objs[o].filePath
         IN /\ \A x \in StateIds :
                 queue'.objs[x].filePath = p =>
                   ~queue'.objs[x].timer /\ queue'.objs[x].latestJob = 0
            /\ \A k \in 1..Len(queue'.assigned[p]) :
                 queue'.settled[queue'.assigned[p][k].state]
                               [queue'.assigned[p][k].generation] # <<>>]_vars

(***************************************************************************)
(* Claims about saveFile and deleteFile.                                   *)
(***************************************************************************)
\* The saveFile calls made so far.
Saves == files.mirror.saves

\* Two saveFile calls on one path, the second made before the first ended.
Overlapping(s, t) ==
  /\ s # t
  /\ Saves[s].filePath = Saves[t].filePath
  /\ Saves[s].at # "idle"
  /\ Saves[t].at # "idle"

\* C34: when the enqueue promise of a saveFile call rejects, the entry of
\* the path, the size counter, the path's membership of the loaded-content
\* set and the path's entry of the modified map are, right after the catch
\* block, what they were when the call took its snapshot, whatever other
\* saveFile calls were made in between.
C34_RollbackRestoresSnapshot ==
  \A s \in SaveIds :
     Saves[s].at = "thrown" => Saves[s].rolledBack = Saves[s].before

\* A saveFile call has thrown after another saveFile call on the same path
\* was made, and the path had an entry in the modified map before it.
C34_Witness ==
  \E s, t \in SaveIds :
     /\ Overlapping(s, t)
     /\ Saves[s].at = "thrown"
     /\ Saves[s].hadModified
     /\ Saves[s].rolledBack = Saves[s].before

\* The place, among the enqueues of path p, of the k-th job passed to the
\* write callback for p.
WriteIndex(p, k) ==
  CHOOSE i \in 1..Len(Assigned(p)) :
     Assigned(p)[i] = [state |-> Writes(p)[k].state, generation |-> Writes(p)[k].generation]

\* The write callback was called for the job of saveFile call s or for the
\* job of a later saveFile call on its path.
Received(s) ==
  \E k \in 1..Len(Writes(Saves[s].filePath)) :
     WriteIndex(Saves[s].filePath, k) >= Saves[s].index

\* The queue holds nothing for a path: no state, no timer, no write in
\* flight or waiting in a chain.
NothingLeft(p) ==
  /\ queue.states[p] = 0
  /\ \A o \in StateIds : queue.objs[o].filePath = p => Quiet(o)

\* C35: an accepted edit is not dropped while the local mirror shows it:
\* when a saveFile call has returned, its path was not deleted since, the
\* mirror holds its content, no refresh is in flight and the queue has
\* nothing left to do for the path, then the platform was sent a write for
\* the path with that content or with the content of a later saveFile call.
C35_AcceptedEditIsWritten ==
  \A s \in SaveIds :
     (/\ Saves[s].at = "returned"
      /\ ~Saves[s].deleted
      /\ files.mirror.fileMap[Saves[s].filePath] = Defined(Saves[s].content)
      /\ ~files.mirror.refreshInFlight
      /\ NothingLeft(Saves[s].filePath))
     => Received(s)

\* The deleteFile calls made so far.
Deletes == files.mirror.deletes

\* The number of enqueues of its path made before deleteFile call d
\* returned.
EnqueuedBeforeReturn(d) ==
  IF Deletes[d].at = "done" THEN Deletes[d].enqueuedAtReturn
  ELSE Len(Assigned(Deletes[d].filePath))

\* C36: once deleteFile has issued the platform delete of a path, no write
\* of the path is in flight, and no job of the path that was enqueued before
\* deleteFile returned is passed to the write callback any more.
C36_NoWriteAfterDelete ==
  \A d \in DeleteIds :
     Deletes[d].at \in {"delete", "done"} =>
        /\ ~Deletes[d].writingAtIssue
        /\ \A k \in 1..Len(Writes(Deletes[d].filePath)) :
              k > Deletes[d].issuedAfter =>
                 WriteIndex(Deletes[d].filePath, k) > EnqueuedBeforeReturn(d)

(***************************************************************************)
(* Claims about refreshFromRemote.                                         *)
(***************************************************************************)
\* The refreshFromRemote calls made so far.
WalkCalls == files.walk.calls

\* C38: refreshFromRemote honors force: when a call with force = true has
\* resolved, every directory listing of the tree walk it awaited was fetched
\* from the platform by that walk, none taken from an unexpired cache entry
\* or from a listing in flight, also when the call found a refresh in flight.
C38_ForcedRefreshFetchesAll ==
  \A c \in WalkCallIds :
     WalkCalls[c].force /\ WalkCalls[c].at = "resolved" => WalkCalls[c].served = {}

(***************************************************************************)
(* Claims about the published preview status.                              *)
(***************************************************************************)
\* C39: a projection of a session state with an error signal puts out
\* reconnecting or error; it puts out reconnecting only if the state has a
\* runtime token, a lastHealthyAt is remembered, less than 30 s have passed
\* since the first of the projections in a row that had an error signal, and
\* none of the earlier projections of that row put out error.
C39_ReconnectingOnlyWithinGrace ==
  preview.signal.present =>
     /\ preview.signal.output \in {"reconnecting", "error"}
     /\ preview.signal.output = "reconnecting" =>
           /\ preview.signal.canReconnect
           /\ preview.signal.at - preview.signal.since < ReconnectGraceMs
           /\ ~preview.signal.erredBefore

\* C40: lastTransitionAt advances only when state changes: a published
\* snapshot whose lastTransitionAt differs from that of the snapshot
\* published before it has another state than that one.
C40_TransitionOnlyOnStateChange ==
  preview.previous # Undefined =>
     (preview.status.lastTransitionAt # preview.previous[1].lastTransitionAt
        => preview.status.state # preview.previous[1].state)

=============================================================================
